---- MODULE Spec2Model ----
(***************************************************************************)
(* Account directory of the medical-practice admin/owner tools.            *)
(*                                                                         *)
(* Cloud variant: the Cosmos "users" container shared by                   *)
(*   medical_practice_app/lib/python_admin/admin_app.py  (AzureServices)   *)
(*   medical_practice_app/lib/python_owner/owner_app.py  (AzureServices)   *)
(* Local variant: the SQLite tables of python_admin/admin_app.py           *)
(*   (AdminApplication).                                                   *)
(*                                                                         *)
(* Every service method is one action.  A method is a fixed sequence of    *)
(* blocking calls to the backing store; the input `fail` names the call    *)
(* that raises (0: none), so a handler that stops partway is one action    *)
(* whose effect is the prefix of its writes.  The Azure AD directory is    *)
(* written by graph_client.users.create and read by no operation here, so *)
(* that call appears only as a point where a handler can fail.             *)
(***************************************************************************)
EXTENDS Integers, Sequences, FiniteSets, TLC

(* ------------------------------ bounds -------------------------------- *)
\* number of distinct uuid4 values the model can hand out
MaxIds == 4
\* size of the access-code space (the code draws 8 chars of A-Z0-9)
NumCodes == 2
\* number of doctor accounts the model creates
MaxDoctors == 1
\* last value of the wall clock
MaxTime == 1
\* number of backup archives kept on disk
MaxBackups == 1
\* number of rows a SQLite table may receive (AUTOINCREMENT ceiling)
MaxRows == 2
\* number of admin accounts the model creates
MaxAdmins == 1
\* items in an exported collection
MaxItems == 2
\* loads of the doctors list under way at one time
MaxLoads == 2
\* app instances that call the service at the same time
NumInstances == 2
\* number of distinct characters a password is made of, besides NUL
NumChars == 1
\* length of the longest password
MaxPasswordLen == 2
\* number of distinct values os.urandom(32) returns
NumSalts == 3
\* length of the shortest password the change form accepts: the 8 of
\* _handle_password_change on the scale of MaxPasswordLen
MinPasswordLen == 2
\* number of extensions the history of one doctor's subscription records
MaxExtensions == 2
\* last day the clock reaches when whole months elapse
MaxElapsed == 60
\* number of nested calls the interpreter allows (sys.getrecursionlimit)
MaxDepth == 3
\* number of distinct e-mail addresses an admin form can hold
NumEmails == 2

(* ---------------------------- constants ------------------------------- *)
\* datetime.timedelta(days=365) in create_doctor_account
YearDays == 365
\* Python None
None == 0
\* reading result['lab_id'] from a result that has no such key
KeyError == -1
\* the largest number of store calls one handler of the directory makes
MaxCalls == 6
\* the calls of delete_doctor that can raise: three DELETE and the commit
DeleteCalls == 4
\* 'last_login': None, in a field that otherwise holds a time
NoLogin == -1
\* `elif days_left < 30` in _populate_doctor_trees
ExpiringSoonDays == 30

Ids == 1..MaxIds
Codes == 1..NumCodes
\* characters of a password; 0 is the NUL character
Chars == 0..NumChars
\* str values handed to the SecurityManager: not empty, shorter than the
\* block of the HMAC
Passwords == UNION {[1..n -> Chars] : n \in 1..MaxPasswordLen}
\* the ghost value "no password hashed yet"
NoPassword == <<>>
Salts == 1..NumSalts

Instances == 1..NumInstances

\* an app instance that is not inside a service call
NoRequest == [op |-> "none"]

\* the login form before anything is typed
NoForm == [username |-> "", password |-> NoPassword]

\* a run of the owner app in which no credential call has returned true
\* and no message box has been shown
NoSession == [logged_in |-> FALSE, must_change |-> FALSE, box |-> "none"]

\* a connection with no transaction open
NoJournal == [open |-> FALSE]

\* no generate_access_code call under way
NoCodeCall == [status |-> "idle"]

VARIABLES
    store,        \* Cosmos users container: id -> record
    archives,     \* backup zips on disk: each the users items it holds
    now,          \* datetime.datetime.now()
    last,         \* the last service call: name, id argument, outcome
    doctors,      \* SQLite: set of doctor row ids
    pharmacies,   \* SQLite: rows of table pharmacies
    laboratories, \* SQLite: rows of table laboratories
    seq,          \* SQLite: sqlite_sequence, the last AUTOINCREMENT id
    dialog,       \* SQLite app: the modal add/edit dialog that is open
    credentials,      \* OwnerCredentials.credentials, the dict in memory
    credentials_file, \* owner_credentials.json on disk
    password,         \* history: the plaintext most recently hashed
    stored_password,  \* a stored hash handed to verify_password
    answer,           \* the last return value of a credential call
    granted,      \* history: per doctor, the extensions since its end
                  \* date was last written by another operation
    tree,         \* the rows of the doctors Treeview as last populated
    inflight,     \* per app instance: the service call that has read a
                  \* record and not yet replaced it
    loading,      \* threads _load_doctors started that have not fetched
    fetched,      \* doctor lists fetched and waiting for the main thread
    collection,   \* the items of the collection export_data is asked for
    export_file,  \* the file export_data wrote last
    screen,        \* owner app: the screen its window shows
    authenticated, \* owner app: self.authenticated
    login_form,    \* owner app: username_var and password_var
    session,       \* history: what the credential calls of this run of
                   \* the owner app returned, and the message box the
                   \* last handler showed
    journal,      \* SQLite: the tables as last committed while the
                  \* connection has a transaction open
    code_call     \* SQLite app: the generate_access_code call under way

cloudVars == <<store, archives, now, last>>
localVars == <<doctors, pharmacies, laboratories, seq, dialog, journal>>
ownerVars == <<credentials, credentials_file, password, stored_password,
               answer>>
sessionVars == <<screen, authenticated, login_form, session>>
uiVars == <<inflight, loading, fetched, collection, export_file,
            sessionVars, code_call>>
viewVars == <<granted, tree, uiVars>>
vars == <<store, archives, now, last,
          doctors, pharmacies, laboratories, seq, dialog,
          credentials, credentials_file, password, stored_password, answer,
          granted, tree, inflight, loading, fetched, collection,
          export_file, screen, authenticated, login_form, session,
          journal, code_call>>

(* ------------------------- helpers: the store ------------------------- *)
\* users_container.create_item / replace_item of one record
PutItem(s, rec) == (rec.id :> rec) @@ s

RECURSIVE ApplyWrites(_, _)
\* the store after the writes of a sequence of records, in order
ApplyWrites(s, ws) ==
    IF ws = <<>> THEN s
    ELSE ApplyWrites(PutItem(s, Head(ws)), Tail(ws))

DoctorIds(s) == {id \in DOMAIN s : s[id].role = "doctor"}
AssociateIds(s) == {id \in DOMAIN s : s[id].role \in {"pharmacy", "laboratory"}}

\* ids some doctor record refers to as its pharmacy or laboratory
Referenced(s) ==
    {s[d].pharmacyAccountId : d \in DoctorIds(s)} \cup
    {s[d].labAccountId : d \in DoctorIds(s)}

\* uuid.uuid4(): a value that is neither stored, nor referred to, nor
\* archived
FreeIds(s) ==
    Ids \ (DOMAIN s \cup Referenced(s) \cup UNION {DOMAIN a : a \in archives})

RECURSIVE NthFree(_, _)
NthFree(S, n) ==
    LET m == CHOOSE x \in S : \A y \in S : x <= y
    IN IF n = 1 THEN m ELSE NthFree(S \ {m}, n - 1)

\* A handler is a sequence of calls to the store; a call may write a record.
ReadCall(name) == [name |-> name, write |-> <<>>]
WriteCall(name, rec) == [name |-> name, write |-> <<rec>>]

RECURSIVE WritesOf(_)
WritesOf(calls) ==
    IF calls = <<>> THEN <<>>
    ELSE Head(calls).write \o WritesOf(Tail(calls))

\* the writes made when call number fail raises (fail = 0: no call raises)
WritesBefore(calls, fail) ==
    IF fail = 0 THEN WritesOf(calls)
    ELSE WritesOf(SubSeq(calls, 1, fail - 1))

Outcome(fail) == IF fail = 0 THEN "ok" ELSE "error"

\* a bug that undoes the handler's writes when it fails
CommitOrRollBack(s, written, failed) ==
    IF failed THEN s ELSE ApplyWrites(s, written)

\* what the store holds when a handler leaves, with failed = TRUE when it
\* leaves through its except clause: the clause logs and re-raises, the
\* writes made so far stay
Commit(s, written, failed) == ApplyWrites(s, written)

Call(op, id, status, lab_id) ==
    [op |-> op, id |-> id, status |-> status, lab_id |-> lab_id]

(* ------------------- python_admin: AzureServices ---------------------- *)
\* _generate_access_code: 8 random characters, no look-up in the store
generate_access_code_cloud(s) == Codes

\* a bug that flags a laboratory account whether or not one was requested
DoctorRecordLabFlagged(doctor_id, pharmacy_id, lab_id, t) ==
    [id |-> doctor_id,
     role |-> "doctor",
     isActive |-> TRUE,
     hasPharmacyAccount |-> TRUE,
     hasLabAccount |-> TRUE,
     pharmacyAccountId |-> pharmacy_id,
     labAccountId |-> lab_id,
     pharmacyAccountActive |-> TRUE,
     labAccountActive |-> TRUE,
     subscriptionStartDate |-> t,
     subscriptionEndDate |-> t + YearDays,
     createdAt |-> t,
     updatedAt |-> t]

DoctorRecord(doctor_id, pharmacy_id, lab_id, t) ==
    [id |-> doctor_id,
     role |-> "doctor",
     isActive |-> TRUE,
     hasPharmacyAccount |-> TRUE,
     hasLabAccount |-> lab_id # None,
     pharmacyAccountId |-> pharmacy_id,
     labAccountId |-> lab_id,
     pharmacyAccountActive |-> TRUE,
     labAccountActive |-> lab_id # None,
     subscriptionStartDate |-> t,
     subscriptionEndDate |-> t + YearDays,
     createdAt |-> t,
     updatedAt |-> t]

AssociateRecord(id, doctor_id, role, code, t) ==
    [id |-> id,
     doctorId |-> doctor_id,
     role |-> role,
     accessCode |-> code,
     isActive |-> TRUE,
     createdAt |-> t,
     updatedAt |-> t]

create_doctor_account(create_lab, fail) ==
    LET free == FreeIds(store)
        doctor_id == NthFree(free, 1)
        pharmacy_id == NthFree(free, 2)
        lab_id == IF create_lab THEN NthFree(free, 3) ELSE None
    IN
    /\ Cardinality(free) >= (IF create_lab THEN 3 ELSE 2)
    /\ Cardinality(DoctorIds(store)) < MaxDoctors
    /\ \E pharmacy_code \in generate_access_code_cloud(store) :
       \E lab_code \in generate_access_code_cloud(store) :
         LET calls ==
                 <<ReadCall("graph_users_create"),
                   WriteCall("create_doctor",
                             DoctorRecord(doctor_id, pharmacy_id, lab_id, now)),
                   WriteCall("create_pharmacy",
                             AssociateRecord(pharmacy_id, doctor_id,
                                             "pharmacy", pharmacy_code, now))>>
                 \o (IF lab_id # None
                     THEN <<WriteCall("create_lab",
                               AssociateRecord(lab_id, doctor_id,
                                               "laboratory", lab_code, now))>>
                     ELSE <<>>)
                 \o <<ReadCall("create_container_if_not_exists")>>
         IN
         /\ fail \in 0..Len(calls)
         /\ store' = Commit(store, WritesBefore(calls, fail), fail # 0)
         /\ last' = Call("create_doctor_account", doctor_id, Outcome(fail),
                         IF fail = 0 THEN lab_id ELSE None)
    /\ UNCHANGED <<archives, now>>
    /\ UNCHANGED <<localVars, ownerVars, viewVars>>

\* for key, value in update_data.items(): if key in record: record[key] = value
MergeFields(rec, update_data) ==
    [k \in DOMAIN rec |->
        IF k \in DOMAIN update_data THEN update_data[k] ELSE rec[k]]

\* body of update_doctor_account, called under the name op
UpdateDoctor(op, doctor_id, update_data, fail) ==
    LET doctor_record ==
            [MergeFields(store[doctor_id], update_data)
                EXCEPT !.updatedAt = now]
        calls == <<ReadCall("read_item"),
                   WriteCall("replace_item", doctor_record)>>
    IN
    /\ fail \in 0..Len(calls)
    /\ store' = Commit(store, WritesBefore(calls, fail), fail # 0)
    /\ last' = Call(op, doctor_id, Outcome(fail), None)
    /\ UNCHANGED <<archives, now>>

\* a bug that cascades the flag to the doctor's view of the pharmacy
ActivateDoctorDataCascade(active) ==
    [isActive |-> active, pharmacyAccountActive |-> active]

\* the update_data activate_doctor_account hands to update_doctor_account
ActivateDoctorData(active) == [isActive |-> active]

activate_doctor_account(doctor_id, active, fail) ==
    /\ doctor_id \in DoctorIds(store)
    /\ UpdateDoctor("activate_doctor_account", doctor_id,
                    ActivateDoctorData(active), fail)
    /\ UNCHANGED <<localVars, ownerVars, viewVars>>

\* a bug that replaces the end date instead of adding to it
NewEndDateFromNow(current_end_date, t, days) == t + days

\* current_end + timedelta(days=days), current_end being the stored end date
\* if there is one and now otherwise
NewEndDate(current_end_date, t, days) ==
    (IF current_end_date # None THEN current_end_date ELSE t) + days

\* the history of extensions of one doctor: it goes on while the stored end
\* date is the one the previous extension wrote, and starts anew otherwise
ExtensionRun(g, doctor_id, current_end_date, t) ==
    IF doctor_id \in DOMAIN g /\ g[doctor_id].end = current_end_date
    THEN g[doctor_id]
    ELSE LET base == IF current_end_date # None THEN current_end_date ELSE t
         IN [base |-> base, days |-> <<>>, end |-> base]

update_subscription(doctor_id, days, fail) ==
    /\ doctor_id \in DoctorIds(store)
    /\ LET doctor_record == store[doctor_id]
           new_end == NewEndDate(doctor_record.subscriptionEndDate, now, days)
           calls == <<ReadCall("read_item"),
                      WriteCall("replace_item",
                          [doctor_record EXCEPT
                              !.subscriptionEndDate = new_end,
                              !.updatedAt = now])>>
           run == ExtensionRun(granted, doctor_id,
                               doctor_record.subscriptionEndDate, now)
       IN
       /\ Len(run.days) < MaxExtensions
       /\ fail \in 0..Len(calls)
       /\ store' = Commit(store, WritesBefore(calls, fail), fail # 0)
       /\ last' = Call("update_subscription", doctor_id, Outcome(fail), None)
       /\ granted' =
             IF fail # 0 THEN granted
             ELSE (doctor_id :> [base |-> run.base,
                                 days |-> Append(run.days, days),
                                 end |-> store'[doctor_id].subscriptionEndDate])
                  @@ granted
    /\ UNCHANGED <<archives, now, tree, uiVars>>
    /\ UNCHANGED <<localVars, ownerVars>>

\* (end_date_dt - now).days: timedelta.days rounds down, so the count is one
\* less when the time of day of now is later than that of the end date
DaysLeft(end_date, t, later_in_day) ==
    end_date - t - (IF later_in_day THEN 1 ELSE 0)

\* a bug that counts the last day as expired
SubscriptionStatusInclusive(days_left) ==
    IF days_left <= 0 THEN "Expired"
    ELSE IF days_left < ExpiringSoonDays THEN "Expiring Soon"
    ELSE "Active"

SubscriptionStatus(days_left) ==
    IF days_left < 0 THEN "Expired"
    ELSE IF days_left < ExpiringSoonDays THEN "Expiring Soon"
    ELSE "Active"

\* the subscription columns of one row; they stay empty unless the record
\* has both a start and an end date (a start date, where the key is there,
\* is the timestamp create_doctor_account wrote; an end date can be None)
SubscriptionColumns(doctor, t, later_in_day) ==
    IF /\ "subscriptionStartDate" \in DOMAIN doctor
       /\ doctor.subscriptionEndDate # None
    THEN LET days_left ==
                 DaysLeft(doctor.subscriptionEndDate, t, later_in_day)
         IN [id |-> doctor.id,
             end_date |-> doctor.subscriptionEndDate,
             days_left |-> days_left,
             subscription_status |-> SubscriptionStatus(days_left)]
    ELSE [id |-> doctor.id,
          end_date |-> None,
          days_left |-> None,
          subscription_status |-> ""]

\* f"{'Yes' if has else 'No'} ({'Active' if active else 'Inactive'})"
AccountColumn(has, active) ==
    [has |-> IF has THEN "Yes" ELSE "No",
     active |-> IF active THEN "Active" ELSE "Inactive"]

\* the status, pharmacy and lab columns of one row, all taken from the
\* doctor record
StatusColumns(doctor) ==
    [status |-> IF doctor.isActive THEN "Active" ELSE "Inactive",
     pharmacy |-> AccountColumn(doctor.hasPharmacyAccount,
                                doctor.pharmacyAccountActive),
     lab |-> AccountColumn(doctor.hasLabAccount, doctor.labAccountActive)]

\* one row of the doctors Treeview
TreeRow(doctor, t, later_in_day) ==
    SubscriptionColumns(doctor, t, later_in_day) @@ StatusColumns(doctor)

\* _load_doctors: get_doctor_accounts, then _populate_doctor_trees
populate_doctor_trees(later_in_day) ==
    /\ tree' = [d \in DoctorIds(store) |-> TreeRow(store[d], now, later_in_day)]
    /\ UNCHANGED <<cloudVars, granted, uiVars>>
    /\ UNCHANGED <<localVars, ownerVars>>

\* update_doctor_account on a row of the doctors list, with any dict of
\* changes
update_doctor_account(doctor_id, update_data, fail) ==
    /\ doctor_id \in DoctorIds(store)
    /\ UpdateDoctor("update_doctor_account", doctor_id, update_data, fail)
    /\ UNCHANGED <<localVars, ownerVars, viewVars>>

\* a bug that refreshes updatedAt and forgets the flag
SetActiveTouchOnly(rec, active, t) == [rec EXCEPT !.updatedAt = t]

\* record['isActive'] = active; record['updatedAt'] = now
SetActive(rec, active, t) == [rec EXCEPT !.isActive = active, !.updatedAt = t]

\* a bug that upserts the associate instead of ignoring a missing one
AssociateCallsUpsert(s, assoc_id, name, active, t) ==
    IF assoc_id = None THEN <<>>
    ELSE IF assoc_id \notin DOMAIN s
    THEN <<ReadCall("read_" \o name),
           WriteCall("create_" \o name,
                     [id |-> assoc_id,
                      doctorId |-> None,
                      role |-> IF name = "lab" THEN "laboratory" ELSE name,
                      accessCode |-> 1,
                      isActive |-> active,
                      createdAt |-> t,
                      updatedAt |-> t])>>
    ELSE <<ReadCall("read_" \o name),
           WriteCall("replace_" \o name, SetActive(s[assoc_id], active, t))>>

\* the calls made for the associated account once the doctor is saved:
\* none for a falsy id; for a missing record a read that raises
\* ResourceNotFoundError, which is caught and logged; else a read and a replace
AssociateCalls(s, assoc_id, name, active, t) ==
    IF assoc_id = None THEN <<>>
    ELSE IF assoc_id \notin DOMAIN s
    THEN <<ReadCall("read_" \o name)>>
    ELSE <<ReadCall("read_" \o name),
           WriteCall("replace_" \o name, SetActive(s[assoc_id], active, t))>>

\* body shared by activate_pharmacy_account and activate_lab_account, which
\* differ in the doctor field they set and the id field they follow
ActivateAssociate(op, name, doctor_id, active, fail, doctor_record, assoc_id) ==
    LET calls == <<ReadCall("read_doctor"),
                   WriteCall("replace_doctor", doctor_record)>> \o
                 AssociateCalls(PutItem(store, doctor_record), assoc_id,
                                name, active, now)
    IN
    /\ fail \in 0..Len(calls)
    /\ store' = Commit(store, WritesBefore(calls, fail), fail # 0)
    /\ last' = Call(op, doctor_id, Outcome(fail), None)
    /\ UNCHANGED <<archives, now>>

\* body of activate_pharmacy_account
ActivatePharmacy(doctor_id, active, fail) ==
    ActivateAssociate("activate_pharmacy_account", "pharmacy",
          doctor_id, active, fail,
          [store[doctor_id] EXCEPT !.pharmacyAccountActive = active,
                                   !.updatedAt = now],
          store[doctor_id].pharmacyAccountId)

activate_pharmacy_account(doctor_id, active, fail) ==
    /\ doctor_id \in DoctorIds(store)
    /\ ActivatePharmacy(doctor_id, active, fail)
    /\ UNCHANGED <<localVars, ownerVars, viewVars>>

\* body of activate_lab_account
ActivateLab(doctor_id, active, fail) ==
    ActivateAssociate("activate_lab_account", "lab",
          doctor_id, active, fail,
          [store[doctor_id] EXCEPT !.labAccountActive = active,
                                   !.updatedAt = now],
          store[doctor_id].labAccountId)

activate_lab_account(doctor_id, active, fail) ==
    /\ doctor_id \in DoctorIds(store)
    /\ ActivateLab(doctor_id, active, fail)
    /\ UNCHANGED <<localVars, ownerVars, viewVars>>

\* _load_doctors: empty the Treeview and start a thread that fetches
LoadDoctors ==
    /\ tree' = <<>>
    /\ loading' = loading + 1
    /\ UNCHANGED fetched

\* the Refresh button
load_doctors ==
    /\ loading + Len(fetched) < MaxLoads
    /\ LoadDoctors
    /\ UNCHANGED <<cloudVars, localVars, ownerVars, granted, inflight,
                   collection, export_file,
                   sessionVars, code_call>>

\* _load_doctors_thread: get_doctor_accounts, then hand the list to the
\* main thread with root.after
load_doctors_thread ==
    /\ loading > 0
    /\ loading' = loading - 1
    /\ fetched' = Append(fetched, [d \in DoctorIds(store) |-> store[d]])
    /\ UNCHANGED <<cloudVars, localVars, ownerVars, granted, inflight, tree,
                   collection, export_file,
                   sessionVars, code_call>>

\* the callback root.after queued: _populate_doctor_trees(doctors)
populate_fetched ==
    /\ fetched # <<>>
    /\ tree' = [d \in DOMAIN Head(fetched) |->
                  TreeRow(Head(fetched)[d], now, FALSE)]
    /\ fetched' = Tail(fetched)
    /\ UNCHANGED <<cloudVars, localVars, ownerVars, granted, inflight, loading,
                   collection, export_file,
                   sessionVars, code_call>>

\* what a toggle handler does after the service call: reload the list when
\* the call returned, nothing but a message box when it raised
AfterToggle(fail) ==
    /\ IF fail = 0 THEN LoadDoctors ELSE UNCHANGED <<tree, loading, fetched>>
    /\ UNCHANGED <<localVars, ownerVars, granted, inflight, collection, export_file,
                   sessionVars, code_call>>

\* _toggle_doctor_status on the selected row: new_status = status != "Active"
toggle_doctor_status(doctor_id, fail) ==
    /\ doctor_id \in DOMAIN tree
    /\ loading + Len(fetched) < MaxLoads
    /\ UpdateDoctor("activate_doctor_account", doctor_id,
                    ActivateDoctorData(tree[doctor_id].status # "Active"),
                    fail)
    /\ AfterToggle(fail)

\* _toggle_pharmacy_status: new_status = "Inactive" in pharmacy, unless the
\* column says the doctor has no pharmacy account
toggle_pharmacy_status(doctor_id, fail) ==
    /\ doctor_id \in DOMAIN tree
    /\ loading + Len(fetched) < MaxLoads
    /\ tree[doctor_id].pharmacy.has = "Yes"
    /\ ActivatePharmacy(doctor_id,
                        tree[doctor_id].pharmacy.active = "Inactive", fail)
    /\ AfterToggle(fail)

\* _toggle_lab_status: new_status = "Inactive" in lab
toggle_lab_status(doctor_id, fail) ==
    /\ doctor_id \in DOMAIN tree
    /\ loading + Len(fetched) < MaxLoads
    /\ tree[doctor_id].lab.has = "Yes"
    /\ ActivateLab(doctor_id, tree[doctor_id].lab.active = "Inactive", fail)
    /\ AfterToggle(fail)

\* update_subscription in one app instance, up to the point where it has
\* read the record and set the new end date in its copy
update_subscription_read(instance, doctor_id, days) ==
    /\ inflight[instance] = NoRequest
    /\ doctor_id \in DoctorIds(store)
    /\ LET doctor_record == store[doctor_id]
           new_end == NewEndDate(doctor_record.subscriptionEndDate, now, days)
       IN
       /\ new_end <= MaxTime + YearDays + MaxElapsed
       /\ inflight' =
             [inflight EXCEPT ![instance] =
                [op |-> "update_subscription",
                 id |-> doctor_id,
                 days |-> days,
                 body |-> [doctor_record EXCEPT
                              !.subscriptionEndDate = new_end,
                              !.updatedAt = now]]]
    /\ UNCHANGED <<cloudVars, localVars, ownerVars, granted, tree, loading,
                   fetched, collection, export_file,
                   sessionVars, code_call>>

\* activate_doctor_account in one app instance, up to the point where
\* update_doctor_account has read the record and merged the flag
activate_doctor_account_read(instance, doctor_id, active) ==
    /\ inflight[instance] = NoRequest
    /\ doctor_id \in DoctorIds(store)
    /\ inflight' =
          [inflight EXCEPT ![instance] =
             [op |-> "activate_doctor_account",
              id |-> doctor_id,
              active |-> active,
              body |-> [MergeFields(store[doctor_id],
                                    ActivateDoctorData(active))
                           EXCEPT !.updatedAt = now]]]
    /\ UNCHANGED <<cloudVars, localVars, ownerVars, granted, tree, loading,
                   fetched, collection, export_file,
                   sessionVars, code_call>>

\* a bug-free store call: replace_item(item=doctor_id, body=doctor_record)
\* with the copy the instance holds, whatever the container holds by now
replace_item(instance) ==
    /\ inflight[instance] # NoRequest
    /\ store' = PutItem(store, inflight[instance].body)
    /\ last' = Call(inflight[instance].op, inflight[instance].id, "ok", None)
    /\ inflight' = [inflight EXCEPT ![instance] = NoRequest]
    /\ UNCHANGED <<archives, now>>
    /\ UNCHANGED <<localVars, ownerVars, granted, tree, loading, fetched,
                   collection, export_file,
                   sessionVars, code_call>>

\* a bug that inverts the test of labAccountId
HasLabAccountInverted(doctor_record) ==
    doctor_record.hasLabAccount /\ doctor_record.labAccountId = None

\* doctor_record.get('hasLabAccount', False) and doctor_record.get('labAccountId')
HasLabAccount(doctor_record) ==
    doctor_record.hasLabAccount /\ doctor_record.labAccountId # None

\* result['lab_id'] as AdminApp._add_lab_account reads it from what
\* add_lab_account_to_doctor returned
ResultLabId(result) ==
    IF "lab_id" \in DOMAIN result THEN result.lab_id ELSE KeyError

add_lab_account_to_doctor(doctor_id, fail) ==
    /\ doctor_id \in DoctorIds(store)
    /\ LET doctor_record == store[doctor_id] IN
       IF HasLabAccount(doctor_record)
       THEN \* return doctor_record
            LET calls == <<ReadCall("read_doctor")>> IN
            /\ fail \in 0..Len(calls)
            /\ store' = Commit(store, WritesBefore(calls, fail), fail # 0)
            /\ last' = Call("add_lab_account_to_doctor", doctor_id,
                            Outcome(fail),
                            IF fail = 0 THEN ResultLabId(doctor_record)
                            ELSE None)
       ELSE LET free == FreeIds(store)
                lab_id == NthFree(free, 1)
            IN
            /\ Cardinality(free) >= 1
            /\ \E lab_code \in generate_access_code_cloud(store) :
                 LET updated_doctor ==
                         [doctor_record EXCEPT !.hasLabAccount = TRUE,
                                               !.labAccountId = lab_id,
                                               !.labAccountActive = TRUE,
                                               !.updatedAt = now]
                     calls ==
                         <<ReadCall("read_doctor"),
                           WriteCall("create_lab",
                               AssociateRecord(lab_id, doctor_id,
                                               "laboratory", lab_code, now)),
                           WriteCall("replace_doctor", updated_doctor)>>
                 IN
                 /\ fail \in 0..Len(calls)
                 /\ store' = Commit(store, WritesBefore(calls, fail), fail # 0)
                 /\ last' = Call("add_lab_account_to_doctor", doctor_id,
                                 Outcome(fail),
                                 IF fail = 0
                                 THEN ResultLabId([doctor |-> updated_doctor,
                                                   lab_id |-> lab_id,
                                                   lab_code |-> lab_code])
                                 ELSE None)
    /\ UNCHANGED <<archives, now>>
    /\ UNCHANGED <<localVars, ownerVars, viewVars>>

\* an id the admin UI can hand to regenerate_access_code: it takes it from
\* the selected doctor's pharmacyAccountId / labAccountId
AccountIds(s) == (DOMAIN s \cup Referenced(s)) \ {None}

\* a bug that lets every stored record pass the role test
IsCodeAccountAnyRole(account_record) ==
    account_record.role \in {"pharmacy", "laboratory", "doctor", "admin"}

\* account_record.get('role') in ['pharmacy', 'laboratory']
IsCodeAccount(account_record) ==
    account_record.role \in {"pharmacy", "laboratory"}

\* account_record['accessCode'] = new_code; account_record['updatedAt'] = now
WithNewCode(account_record, new_code, t) ==
    ("accessCode" :> new_code) @@ ("updatedAt" :> t) @@ account_record

regenerate_access_code(account_id, fail) ==
    /\ account_id \in AccountIds(store)
    /\ IF account_id \notin DOMAIN store
       THEN \* read_item raises ResourceNotFoundError
            /\ fail = 1
            /\ store' = Commit(store, <<>>, TRUE)
            /\ last' = Call("regenerate_access_code", account_id, "error", None)
       ELSE IF ~IsCodeAccount(store[account_id])
       THEN \* raise ValueError("Account is not a pharmacy or lab account")
            /\ fail \in 0..1
            /\ store' = Commit(store, <<>>, TRUE)
            /\ last' = Call("regenerate_access_code", account_id, "error", None)
       ELSE \E new_code \in generate_access_code_cloud(store) :
              LET calls ==
                      <<ReadCall("read_item"),
                        WriteCall("replace_item",
                            WithNewCode(store[account_id], new_code, now))>>
              IN
              /\ fail \in 0..Len(calls)
              /\ store' = Commit(store, WritesBefore(calls, fail), fail # 0)
              /\ last' = Call("regenerate_access_code", account_id,
                              Outcome(fail), None)
    /\ UNCHANGED <<archives, now>>
    /\ UNCHANGED <<localVars, ownerVars, viewVars>>

(* ------------------- python_owner: AzureServices ---------------------- *)
DeactivateAllCalls(s, doctor_id, t) ==
    LET doctor_record == SetActive(s[doctor_id], FALSE, t)
        s1 == PutItem(s, doctor_record)
        pcalls == AssociateCalls(s1, doctor_record.pharmacyAccountId,
                                 "pharmacy", FALSE, t)
        s2 == ApplyWrites(s1, WritesOf(pcalls))
        lcalls == AssociateCalls(s2, doctor_record.labAccountId,
                                 "lab", FALSE, t)
    IN <<ReadCall("read_doctor"), WriteCall("replace_doctor", doctor_record)>>
       \o pcalls \o lcalls

deactivate_all_accounts_for_doctor(doctor_id, fail) ==
    /\ doctor_id \in DoctorIds(store)
    /\ LET calls == DeactivateAllCalls(store, doctor_id, now) IN
       /\ fail \in 0..Len(calls)
       /\ store' = Commit(store, WritesBefore(calls, fail), fail # 0)
       /\ last' = Call("deactivate_all_accounts_for_doctor", doctor_id,
                       Outcome(fail), None)
    /\ UNCHANGED <<archives, now>>
    /\ UNCHANGED <<localVars, ownerVars, viewVars>>

\* backup_database: every item of the users container goes into the zip;
\* nothing is archived when a query or a file write raises
backup_database(fail) ==
    /\ Cardinality(archives) < MaxBackups
    /\ fail \in 0..1
    /\ archives' = IF fail = 0 THEN archives \cup {store} ELSE archives
    /\ last' = Call("backup_database", None, Outcome(fail), None)
    /\ UNCHANGED <<store, now>>
    /\ UNCHANGED <<localVars, ownerVars, viewVars>>

RECURSIVE RestoreCallsReplaceOnly(_, _)
\* a bug that replaces the items the container holds and skips the others
RestoreCallsReplaceOnly(items, ids) ==
    IF ids = {} THEN <<>>
    ELSE LET id == CHOOSE x \in ids : \A y \in ids : x <= y
         IN (IF id \in DOMAIN store
             THEN <<ReadCall("read_item"),
                    WriteCall("replace_item", items[id])>>
             ELSE <<ReadCall("read_item")>>)
            \o RestoreCallsReplaceOnly(items, ids \ {id})

RECURSIVE RestoreCalls(_, _)
\* for item in items: read_item, then replace_item, or create_item when the
\* read raised ResourceNotFoundError; items come in the order of their ids
RestoreCalls(items, ids) ==
    IF ids = {} THEN <<>>
    ELSE LET id == CHOOSE x \in ids : \A y \in ids : x <= y
         IN <<ReadCall("read_item"), WriteCall("upsert_item", items[id])>>
            \o RestoreCalls(items, ids \ {id})

restore_database(backup_file, fail) ==
    /\ backup_file \in archives
    /\ LET calls == <<ReadCall("read_manifest")>> \o
                    RestoreCalls(backup_file, DOMAIN backup_file)
       IN
       /\ fail \in 0..Len(calls)
       /\ store' = Commit(store, WritesBefore(calls, fail), fail # 0)
       /\ last' = Call("restore_database", None, Outcome(fail), None)
    /\ UNCHANGED <<archives, now>>
    /\ UNCHANGED <<localVars, ownerVars, viewVars>>

\* export_data: the field names an item may have besides id, every name in
\* the order of sorted(), and the values of fields
FieldNames == {"a", "b"}
Alphabetical == <<"a", "b", "id">>
FieldValues == {"x", "y"}
ItemIds == <<"1", "2", "3">>

NoExport == [format |-> "none"]
NoDataFound == [format |-> "csv", text |-> "No data found"]

\* the items with a given id
ItemsWithId(id) ==
    UNION {{("id" :> id) @@ fields : fields \in [names -> FieldValues]} :
           names \in SUBSET FieldNames}

\* what query_items can return: up to MaxItems items with distinct ids
Collections ==
    UNION {{items \in [1..n -> UNION {ItemsWithId(ItemIds[i]) : i \in 1..n}] :
              \A i \in 1..n : items[i].id = ItemIds[i]} : n \in 0..MaxItems}

\* columns = set(); for item in items: columns.update(item.keys())
Columns(items) == UNION {DOMAIN items[i] : i \in 1..Len(items)}

\* a bug that sorts id with the other names
SortedColumnsIdInPlace(columns) ==
    SelectSeq(Alphabetical, LAMBDA name : name \in columns)

\* columns.remove('id'); sorted_columns = ['id'] + sorted(columns)
SortedColumns(columns) ==
    <<"id">> \o
    SelectSeq(Alphabetical, LAMBDA name : name \in columns \ {"id"})

\* row = {col: item.get(col, '') for col in sorted_columns}
CsvRow(item, sorted_columns) ==
    [c \in 1..Len(sorted_columns) |->
        IF sorted_columns[c] \in DOMAIN item
        THEN item[sorted_columns[c]]
        ELSE ""]

ExportCsv(items) ==
    IF items = <<>> THEN NoDataFound
    ELSE LET sorted_columns == SortedColumns(Columns(items)) IN
         [format |-> "csv",
          header |-> sorted_columns,
          rows |-> [r \in 1..Len(items) |-> CsvRow(items[r], sorted_columns)]]

ExportJson(items) == [format |-> "json", items |-> items]

\* export_data(collection_name, output_format); fail = 1: the query of
\* the collection raises; a format that is neither json nor csv raises
\* ValueError
export_data(output_format, fail) ==
    /\ fail \in 0..1
    /\ LET raised == fail # 0 \/ output_format \notin {"json", "csv"} IN
       /\ export_file' = CASE raised -> export_file
                            [] output_format = "json" -> ExportJson(collection)
                            [] OTHER -> ExportCsv(collection)
       /\ last' = Call("export_data", None,
                       IF raised THEN "error" ELSE "ok", None)
    /\ UNCHANGED <<store, archives, now, collection>>
    /\ UNCHANGED <<localVars, ownerVars, granted, inflight, tree, loading,
                   fetched, sessionVars, code_call>>

AdminIds(s) == {id \in DOMAIN s : s[id].role = "admin"}

AdminRecord(admin_id, email, t) ==
    [id |-> admin_id,
     email |-> email,
     role |-> "admin",
     isActive |-> TRUE,
     createdAt |-> t,
     updatedAt |-> t]

create_admin_account(email, fail) ==
    LET free == FreeIds(store)
        admin_id == NthFree(free, 1)
        calls == <<ReadCall("graph_users_create"),
                   WriteCall("create_item", AdminRecord(admin_id, email, now))>>
    IN
    /\ free # {}
    /\ Cardinality(AdminIds(store)) < MaxAdmins
    /\ fail \in 0..Len(calls)
    /\ store' = Commit(store, WritesBefore(calls, fail), fail # 0)
    /\ last' = Call("create_admin_account", admin_id, Outcome(fail), None)
    /\ UNCHANGED <<archives, now>>
    /\ UNCHANGED <<localVars, ownerVars, viewVars>>

\* the Azure AD user is updated when a name or the e-mail is among the changes
\* delete_admin_account: read_item, the role test, delete_item, then the
\* deletion of the directory user; the item stays deleted when that last
\* call raises
delete_admin_account(admin_id, fail) ==
    /\ admin_id \in DOMAIN store
    /\ fail \in 0..3
    /\ LET is_admin == store[admin_id].role = "admin"
           deleted == is_admin /\ fail \in {0, 3}
       IN
       /\ store' = IF deleted
                   THEN [id \in DOMAIN store \ {admin_id} |-> store[id]]
                   ELSE store
       /\ last' = Call("delete_admin_account", admin_id,
                       IF is_admin THEN Outcome(fail) ELSE "error", None)
    /\ UNCHANGED <<archives, now>>
    /\ UNCHANGED <<localVars, ownerVars, viewVars>>

TouchesDirectoryUser(update_data) ==
    DOMAIN update_data \cap {"firstName", "lastName", "email"} # {}

update_admin_account(admin_id, update_data, fail) ==
    /\ admin_id \in DOMAIN store
    /\ IF store[admin_id].role # "admin"
       THEN \* raise ValueError("The account is not an admin account")
            /\ fail \in 0..1
            /\ store' = Commit(store, <<>>, TRUE)
            /\ last' = Call("update_admin_account", admin_id, "error", None)
       ELSE LET admin_record ==
                    [MergeFields(store[admin_id], update_data)
                        EXCEPT !.updatedAt = now]
                calls == <<ReadCall("read_item"),
                           WriteCall("replace_item", admin_record)>>
                         \o (IF TouchesDirectoryUser(update_data)
                             THEN <<ReadCall("graph_users_update")>>
                             ELSE <<>>)
            IN
            /\ fail \in 0..Len(calls)
            /\ store' = Commit(store, WritesBefore(calls, fail), fail # 0)
            /\ last' = Call("update_admin_account", admin_id,
                            Outcome(fail), None)
    /\ UNCHANGED <<archives, now>>
    /\ UNCHANGED <<localVars, ownerVars, viewVars>>

(* ------------------ python_admin: AdminApplication -------------------- *)
\* The three tables as the application's one connection sees them.  A row
\* of pharmacies or laboratories is [id, access_code, doctor_id]; name,
\* address and phone are copied from the form and decide nothing.
NoDialog == [kind |-> "none", row |-> None, entry |-> None]

CodesIn(table) == {r.access_code : r \in table}

\* generate_access_code: draw a code; draw again while a row of pharmacies
\* or of laboratories holds it.  When a SELECT raises sqlite3.Error the
\* except clause passes and the code just drawn is returned unchecked.
generate_access_code(ph, lb, select_fails) ==
    IF select_fails THEN Codes
    ELSE Codes \ (CodesIn(ph) \cup CodesIn(lb))

\* INSERT INTO <table> ... access_code TEXT NOT NULL UNIQUE: the constraint
\* ranges over the rows of the one table
InsertAllowed(table, code) == code \notin CodesIn(table)

\* UPDATE <table> SET access_code = ? WHERE id = ?
UpdateAllowed(table, row_id, code) ==
    code \notin {r.access_code : r \in {x \in table : x.id # row_id}}

\* add_doctor.validate_and_save with a valid form and a free username:
\* INSERT, commit, then create_associated_accounts when the box is ticked
add_doctor(create_related, select_fails) ==
    /\ dialog = NoDialog
    /\ seq.doctors < MaxRows
    /\ LET doctor_id == seq.doctors + 1 IN
       /\ doctors' = doctors \cup {doctor_id}
       /\ IF create_related
          THEN /\ seq.pharmacies < MaxRows
               /\ seq.laboratories < MaxRows
               /\ \E pc \in generate_access_code(pharmacies, laboratories,
                                                 select_fails) :
                    /\ InsertAllowed(pharmacies, pc)
                    /\ LET ph == pharmacies \cup
                                 {[id |-> seq.pharmacies + 1,
                                   access_code |-> pc,
                                   doctor_id |-> doctor_id]}
                       IN
                       \E lc \in generate_access_code(ph, laboratories,
                                                      select_fails) :
                         /\ InsertAllowed(laboratories, lc)
                         /\ pharmacies' = ph
                         /\ laboratories' = laboratories \cup
                               {[id |-> seq.laboratories + 1,
                                 access_code |-> lc,
                                 doctor_id |-> doctor_id]}
                         /\ seq' = [doctors |-> doctor_id,
                                    pharmacies |-> seq.pharmacies + 1,
                                    laboratories |-> seq.laboratories + 1]
          ELSE /\ seq' = [seq EXCEPT !.doctors = doctor_id]
               /\ UNCHANGED <<pharmacies, laboratories>>
    /\ journal' = NoJournal
    /\ UNCHANGED dialog
    /\ UNCHANGED <<cloudVars, ownerVars, viewVars>>

\* create_associated_accounts from the doctor's context menu; the operator
\* has confirmed when accounts exist already
create_associated_accounts(doctor_id, select_fails) ==
    /\ dialog = NoDialog
    /\ doctor_id \in doctors
    /\ seq.pharmacies < MaxRows
    /\ seq.laboratories < MaxRows
    /\ \E pc \in generate_access_code(pharmacies, laboratories, select_fails) :
         /\ InsertAllowed(pharmacies, pc)
         /\ LET ph == pharmacies \cup
                      {[id |-> seq.pharmacies + 1,
                        access_code |-> pc,
                        doctor_id |-> doctor_id]}
            IN
            \E lc \in generate_access_code(ph, laboratories, select_fails) :
              /\ InsertAllowed(laboratories, lc)
              /\ pharmacies' = ph
              /\ laboratories' = laboratories \cup
                    {[id |-> seq.laboratories + 1,
                      access_code |-> lc,
                      doctor_id |-> doctor_id]}
              /\ seq' = [seq EXCEPT !.pharmacies = @ + 1,
                                    !.laboratories = @ + 1]
    /\ journal' = NoJournal
    /\ UNCHANGED <<doctors, dialog>>
    /\ UNCHANGED <<cloudVars, ownerVars, viewVars>>

\* codes some row of pharmacies or laboratories holds
Held == CodesIn(pharmacies) \cup CodesIn(laboratories)

\* a handler calls generate_access_code, which draws its code
call_generate_access_code(code) ==
    /\ code_call.status = "idle"
    /\ code_call' = [status |-> "drawn", code |-> code, depth |-> 1]
    /\ UNCHANGED <<cloudVars, localVars, ownerVars, granted, tree, inflight,
                   loading, fetched, collection, export_file, sessionVars>>

\* return self.generate_access_code(): one more frame and one more draw, or
\* RecursionError when the interpreter allows no more frames
Regenerate(next_code) ==
    IF code_call.depth = MaxDepth
    THEN [status |-> "raised", code |-> code_call.code,
          depth |-> code_call.depth]
    ELSE [status |-> "drawn", code |-> next_code,
          depth |-> code_call.depth + 1]

\* the call leaves with the code it holds: the return after the two checks,
\* and the return after `except sqlite3.Error: pass`
Returned == [code_call EXCEPT !.status = "returned"]

\* SELECT COUNT(*) FROM pharmacies WHERE access_code = ? and what follows it
select_pharmacies(select_fails, next_code) ==
    /\ code_call.status = "drawn"
    /\ code_call' =
          IF select_fails THEN Returned
          ELSE IF code_call.code \in CodesIn(pharmacies)
               THEN Regenerate(next_code)
               ELSE [code_call EXCEPT !.status = "checked"]
    /\ UNCHANGED <<cloudVars, localVars, ownerVars, granted, tree, inflight,
                   loading, fetched, collection, export_file, sessionVars>>

\* SELECT COUNT(*) FROM laboratories WHERE access_code = ? and what follows
select_laboratories(select_fails, next_code) ==
    /\ code_call.status = "checked"
    /\ code_call' =
          IF select_fails THEN Returned
          ELSE IF code_call.code \in CodesIn(laboratories)
               THEN Regenerate(next_code)
               ELSE Returned
    /\ UNCHANGED <<cloudVars, localVars, ownerVars, granted, tree, inflight,
                   loading, fetched, collection, export_file, sessionVars>>

\* the handler that called has the code, or the exception, and ends
end_handler ==
    /\ code_call.status \in {"returned", "raised"}
    /\ code_call' = NoCodeCall
    /\ UNCHANGED <<cloudVars, localVars, ownerVars, granted, tree, inflight,
                   loading, fetched, collection, export_file, sessionVars>>

\* the tables as a new connection would read them: the open transaction
\* of this connection, if any, left out
Committed ==
    IF journal.open
    THEN [doctors |-> journal.doctors,
          pharmacies |-> journal.pharmacies,
          laboratories |-> journal.laboratories]
    ELSE [doctors |-> doctors,
          pharmacies |-> pharmacies,
          laboratories |-> laboratories]

\* the journal after a DELETE was handed to the connection: sqlite3 begins a
\* transaction before the first one
Begun ==
    IF journal.open THEN journal
    ELSE [open |-> TRUE,
          doctors |-> doctors,
          pharmacies |-> pharmacies,
          laboratories |-> laboratories]

\* the statement at position call of a handler runs to its end when the
\* handler raises later or not at all
Executed(call, fail) == fail = 0 \/ fail > call

\* delete_doctor, confirmed by the operator; fail names the call that raises
\* sqlite3.Error (0: none; 1, 2, 3: a DELETE; 4: the commit). The handler
\* shows the error and leaves the connection as it is.
delete_doctor(doctor_id, fail) ==
    /\ dialog = NoDialog
    /\ doctor_id \in doctors
    /\ pharmacies' =
          IF Executed(1, fail)
          THEN {r \in pharmacies : r.doctor_id # doctor_id}
          ELSE pharmacies
    /\ laboratories' =
          IF Executed(2, fail)
          THEN {r \in laboratories : r.doctor_id # doctor_id}
          ELSE laboratories
    /\ doctors' =
          IF Executed(3, fail) THEN doctors \ {doctor_id} ELSE doctors
    /\ journal' = IF fail = 0 THEN NoJournal ELSE Begun
    /\ UNCHANGED <<seq, dialog>>
    /\ UNCHANGED <<cloudVars, ownerVars, viewVars>>

\* the application is closed and started again: the connection is dropped
\* with its open transaction, connect_to_database opens a new one
connect_to_database ==
    /\ doctors' = Committed.doctors
    /\ pharmacies' = Committed.pharmacies
    /\ laboratories' = Committed.laboratories
    /\ journal' = NoJournal
    /\ dialog' = NoDialog
    /\ UNCHANGED seq
    /\ UNCHANGED <<cloudVars, ownerVars, viewVars>>

\* add_pharmacy / add_lab: open the dialog with a generated code in the entry
add_pharmacy(select_fails) ==
    /\ dialog = NoDialog
    /\ \E code \in generate_access_code(pharmacies, laboratories, select_fails) :
         dialog' = [kind |-> "add_pharmacy", row |-> None, entry |-> code]
    /\ UNCHANGED <<doctors, pharmacies, laboratories, seq, journal>>
    /\ UNCHANGED <<cloudVars, ownerVars, viewVars>>

add_lab(select_fails) ==
    /\ dialog = NoDialog
    /\ \E code \in generate_access_code(pharmacies, laboratories, select_fails) :
         dialog' = [kind |-> "add_lab", row |-> None, entry |-> code]
    /\ UNCHANGED <<doctors, pharmacies, laboratories, seq, journal>>
    /\ UNCHANGED <<cloudVars, ownerVars, viewVars>>

\* edit_pharmacy / edit_lab: open the dialog on a row, its code in the entry
edit_pharmacy(row_id) ==
    /\ dialog = NoDialog
    /\ \E r \in pharmacies :
         /\ r.id = row_id
         /\ dialog' = [kind |-> "edit_pharmacy", row |-> row_id,
                       entry |-> r.access_code]
    /\ UNCHANGED <<doctors, pharmacies, laboratories, seq, journal>>
    /\ UNCHANGED <<cloudVars, ownerVars, viewVars>>

edit_lab(row_id) ==
    /\ dialog = NoDialog
    /\ \E r \in laboratories :
         /\ r.id = row_id
         /\ dialog' = [kind |-> "edit_lab", row |-> row_id,
                       entry |-> r.access_code]
    /\ UNCHANGED <<doctors, pharmacies, laboratories, seq, journal>>
    /\ UNCHANGED <<cloudVars, ownerVars, viewVars>>

\* the Regenerate button of the four dialogs
regenerate_code(select_fails) ==
    /\ dialog # NoDialog
    /\ \E code \in generate_access_code(pharmacies, laboratories, select_fails) :
         dialog' = [dialog EXCEPT !.entry = code]
    /\ UNCHANGED <<doctors, pharmacies, laboratories, seq, journal>>
    /\ UNCHANGED <<cloudVars, ownerVars, viewVars>>

\* the operator types into access_code_entry (None: leaves it empty)
type_access_code(text) ==
    /\ dialog # NoDialog
    /\ text \in Codes \cup {None}
    /\ dialog' = [dialog EXCEPT !.entry = text]
    /\ UNCHANGED <<doctors, pharmacies, laboratories, seq, journal>>
    /\ UNCHANGED <<cloudVars, ownerVars, viewVars>>

\* the Cancel button: dialog.destroy
cancel_dialog ==
    /\ dialog # NoDialog
    /\ dialog' = NoDialog
    /\ UNCHANGED <<doctors, pharmacies, laboratories, seq, journal>>
    /\ UNCHANGED <<cloudVars, ownerVars, viewVars>>

\* validate_and_save of the add and edit dialogs, the name filled in.  An
\* empty code or an IntegrityError shows a message and leaves the dialog
\* open; otherwise the row is written, committed, and the dialog closes.
validate_and_save(doctor_id) ==
    /\ dialog # NoDialog
    /\ doctor_id \in doctors \cup {None}
    /\ LET code == dialog.entry
           isPharmacy == dialog.kind \in {"add_pharmacy", "edit_pharmacy"}
           table == IF isPharmacy THEN pharmacies ELSE laboratories
           name == IF isPharmacy THEN "pharmacies" ELSE "laboratories"
           isAdd == dialog.kind \in {"add_pharmacy", "add_lab"}
           allowed == /\ code # None
                      /\ IF isAdd THEN InsertAllowed(table, code)
                         ELSE UpdateAllowed(table, dialog.row, code)
           written ==
               IF isAdd
               THEN table \cup {[id |-> seq[name] + 1,
                                 access_code |-> code,
                                 doctor_id |-> doctor_id]}
               ELSE {IF r.id = dialog.row
                     THEN [r EXCEPT !.access_code = code,
                                    !.doctor_id = doctor_id]
                     ELSE r : r \in table}
       IN
       /\ isAdd => seq[name] < MaxRows
       /\ IF allowed
          THEN /\ pharmacies' = IF isPharmacy THEN written ELSE pharmacies
               /\ laboratories' = IF isPharmacy THEN laboratories ELSE written
               /\ seq' = IF isAdd THEN [seq EXCEPT ![name] = @ + 1] ELSE seq
               /\ dialog' = NoDialog
               /\ journal' = NoJournal
          ELSE UNCHANGED <<pharmacies, laboratories, seq, dialog, journal>>
    /\ UNCHANGED doctors
    /\ UNCHANGED <<cloudVars, ownerVars, viewVars>>

(* ------------------- python_owner: SecurityManager -------------------- *)
\* Bytes are sequences of 32-byte blocks: a salt is one block, a derived key
\* is one block, both numbers.
\* a str that base64.b64decode turns into bytes
B64(bytes) == [valid |-> TRUE, bytes |-> bytes]
\* a str on which base64.b64decode raises binascii.Error
NotBase64 == [valid |-> FALSE, bytes |-> <<>>]
\* the empty string of credentials.get('password_hash', '')
NoHash == B64(<<>>)
\* no credential call has returned yet
NoAnswer ==
    [op |-> "none", arg |-> NoPassword, value |-> FALSE, raised |-> FALSE]

Answer(op, arg, value, raised) ==
    [op |-> op, arg |-> arg, value |-> value, raised |-> raised]

\* the number a salt of zero or one block stands for
SaltCode(salt) == IF salt = <<>> THEN 0 ELSE salt[1]

RECURSIVE HmacKey(_)
\* the key HMAC works with: the bytes of the password padded with zero bytes
\* to the block size, read here as a number with the first byte lowest, so
\* that the padding does not show
HmacKey(provided) ==
    IF provided = <<>> THEN 0
    ELSE Head(provided) + (NumChars + 1) * HmacKey(Tail(provided))

\* a bug that derives the key from the salt alone
pbkdf2_hmac_salt_only(provided, salt) ==
    (NumSalts + 1) + SaltCode(salt)

\* hashlib.pbkdf2_hmac('sha256', password, salt, 100000): one 32-byte key for
\* each pair of HMAC key and salt, different pairs giving different keys,
\* and no key equal to a salt
pbkdf2_hmac(provided, salt) ==
    (NumSalts + 1) * (1 + HmacKey(provided)) + SaltCode(salt)

\* base64.b64encode(salt + key).decode('utf-8')
HashWithSalt(plain, salt) == B64(<<salt, pbkdf2_hmac(plain, <<salt>>)>>)

\* base64.b64decode(stored_password)
b64decode(stored) == [raised |-> ~stored.valid, bytes |-> stored.bytes]

\* the try block of verify_password
VerifyBody(stored, provided) ==
    LET decoded == b64decode(stored)
    IN IF decoded.raised THEN [raised |-> TRUE, value |-> FALSE]
       ELSE LET n == Len(decoded.bytes)
                salt == SubSeq(decoded.bytes, 1, IF n >= 1 THEN 1 ELSE 0)
                stored_key == SubSeq(decoded.bytes, 2, n)
                new_key == <<pbkdf2_hmac(provided, salt)>>
            IN [raised |-> FALSE, value |-> stored_key = new_key]

\* a bug that lets the exception of the decoder out
verify_password_unguarded(stored, provided) == VerifyBody(stored, provided)

\* verify_password: the try block, and `except Exception: return False`
verify_password(stored, provided) ==
    LET r == VerifyBody(stored, provided)
    IN IF r.raised THEN [raised |-> FALSE, value |-> FALSE] ELSE r

\* SecurityManager.hash_password called on its own
hash_password(plain) ==
    /\ \E salt \in Salts : stored_password' = HashWithSalt(plain, salt)
    /\ password' = plain
    /\ answer' = Answer("hash_password", plain, TRUE, FALSE)
    /\ UNCHANGED <<credentials, credentials_file>>
    /\ UNCHANGED <<cloudVars, localVars, viewVars>>

\* SecurityManager.verify_password called on the stored value at hand
verify_password_call(provided) ==
    /\ LET r == verify_password(stored_password, provided)
       IN answer' = Answer("verify_password", provided, r.value, r.raised)
    /\ UNCHANGED <<credentials, credentials_file, password, stored_password>>
    /\ UNCHANGED <<cloudVars, localVars, viewVars>>

\* stored values that no hash_password call produced: the empty string, a
\* string that is not base64, one block only, and two blocks of which the
\* second is no derived key
MalformedHashes ==
    {NoHash, NotBase64}
    \cup {B64(<<x>>) : x \in Salts}
    \cup {B64(<<x, y>>) : x \in Salts, y \in Salts}

(* ------------------ python_owner: OwnerCredentials -------------------- *)
\* names a login form may hold
Usernames == {"owner", "admin"}

\* generate_secure_password: letters, digits and punctuation, no NUL
GeneratedPasswords ==
    {p \in Passwords : \A i \in 1..Len(p) : p[i] # 0}

\* what is left of the file when json.dump raises after open(file, 'w')
\* has emptied it
TruncatedFile == [truncated |-> TRUE]

\* the file holds a JSON document with the credential
HoldsCredential(file) == "username" \in DOMAIN file

\* _save_credentials: open(file, 'w'), then json.dump; fail names the call
\* that raises (0: none). The exception is logged and not passed on.
SaveCredentials(creds, file, fail) ==
    CASE fail = 0 -> creds
      [] fail = 1 -> file
      [] OTHER -> TruncatedFile

\* _load_credentials: {} when there is no file, and {} again when open or
\* json.load raises
LoadCredentials(file, load_fails) ==
    IF load_fails \/ ~HoldsCredential(file) THEN <<>> ELSE file

InitialCredentials(hashed_password, t) ==
    [username |-> "owner",
     password_hash |-> hashed_password,
     created_at |-> t,
     last_login |-> NoLogin,
     last_password_change |-> t,
     require_password_change |-> TRUE]

\* OwnerCredentials.__init__: _load_credentials, and
\* _create_initial_credentials when nothing was loaded
CreateOrLoadCredentials(initial_password, salt, load_fails, fail) ==
    /\ IF DOMAIN LoadCredentials(credentials_file, load_fails) # {}
       THEN /\ credentials' = LoadCredentials(credentials_file, load_fails)
            /\ answer' = Answer("OwnerCredentials", NoPassword, FALSE, FALSE)
            /\ UNCHANGED <<credentials_file, password>>
       ELSE LET created ==
                    InitialCredentials(HashWithSalt(initial_password, salt),
                                       now)
            IN /\ credentials' = created
               /\ credentials_file' =
                     SaveCredentials(created, credentials_file, fail)
               /\ password' = initial_password
               /\ answer' = Answer("OwnerCredentials", initial_password,
                                   TRUE, FALSE)
    /\ UNCHANGED stored_password

OwnerCredentials(initial_password, salt, load_fails, fail) ==
    /\ CreateOrLoadCredentials(initial_password, salt, load_fails, fail)
    /\ UNCHANGED <<cloudVars, localVars, viewVars>>

\* a bug that accepts every username
UsernameAlwaysMatches(creds, username) == TRUE

\* username == self.credentials.get('username')
UsernameMatches(creds, username) == username = creds.username

\* body of authenticate
Authenticate(username, provided, fail) ==
    /\ DOMAIN credentials # {}
    /\ IF \/ ~UsernameMatches(credentials, username)
          \/ ~verify_password(credentials.password_hash, provided).value
       THEN /\ answer' = Answer("authenticate", provided, FALSE, FALSE)
            /\ UNCHANGED <<credentials, credentials_file>>
       ELSE /\ credentials' = [credentials EXCEPT !.last_login = now]
            /\ credentials_file' =
                  SaveCredentials(credentials', credentials_file, fail)
            /\ answer' = Answer("authenticate", provided, TRUE, FALSE)
    /\ UNCHANGED <<password, stored_password>>

authenticate(username, provided, fail) ==
    /\ Authenticate(username, provided, fail)
    /\ UNCHANGED <<cloudVars, localVars, viewVars>>

\* a bug that changes the password without the old one
OldPasswordAlwaysVerifies(creds, old_password) == TRUE

\* SecurityManager.verify_password(password_hash, old_password)
OldPasswordVerifies(creds, old_password) ==
    verify_password(creds.password_hash, old_password).value

\* body of change_password
ChangePassword(old_password, new_password, salt, fail) ==
    /\ DOMAIN credentials # {}
    /\ IF ~OldPasswordVerifies(credentials, old_password)
       THEN /\ answer' = Answer("change_password", new_password, FALSE, FALSE)
            /\ UNCHANGED <<credentials, credentials_file, password>>
       ELSE /\ credentials' =
                  [credentials EXCEPT
                     !.password_hash = HashWithSalt(new_password, salt),
                     !.last_password_change = now,
                     !.require_password_change = FALSE]
            /\ credentials_file' =
                  SaveCredentials(credentials', credentials_file, fail)
            /\ password' = new_password
            /\ answer' = Answer("change_password", new_password, TRUE, FALSE)
    /\ UNCHANGED stored_password

change_password(old_password, new_password, salt, fail) ==
    /\ ChangePassword(old_password, new_password, salt, fail)
    /\ UNCHANGED <<cloudVars, localVars, viewVars>>

reset_password(new_password, salt, fail) ==
    /\ DOMAIN credentials # {}
    /\ credentials' =
          [credentials EXCEPT
             !.password_hash = HashWithSalt(new_password, salt),
             !.last_password_change = now,
             !.require_password_change = TRUE]
    /\ credentials_file' =
          SaveCredentials(credentials', credentials_file, fail)
    /\ password' = new_password
    /\ answer' = Answer("reset_password", new_password, TRUE, FALSE)
    /\ UNCHANGED stored_password
    /\ UNCHANGED <<cloudVars, localVars, viewVars>>

(* ------------------------ python_owner: OwnerApp ---------------------- *)
\* a bug that never asks for a new password
NeverRequiresPasswordChange(creds) == FALSE

\* requires_password_change: credentials.get('require_password_change', True)
RequiresPasswordChange(creds) ==
    IF "require_password_change" \in DOMAIN creds
    THEN creds.require_password_change
    ELSE TRUE

\* _load_main_app: the main screen, or the login screen again when
\* AzureServices(config) raises
ScreenAfterLoad(azure_fails) == IF azure_fails THEN "login" ELSE "main"

\* _show_login_screen makes new, empty form variables
FormAfterLoad(form, azure_fails) == IF azure_fails THEN NoForm ELSE form

\* what no handler of the owner app's window touches
OutsideOwnerApp ==
    <<cloudVars, localVars, granted, tree, inflight, loading, fetched,
      collection, export_file, code_call>>

\* OwnerApp.__init__: the credential is loaded or created, the window shows
\* the login screen
OwnerApp(initial_password, salt, load_fails, fail) ==
    /\ screen = "closed"
    /\ CreateOrLoadCredentials(initial_password, salt, load_fails, fail)
    /\ screen' = "login"
    /\ authenticated' = FALSE
    /\ login_form' = NoForm
    /\ session' = NoSession
    /\ UNCHANGED OutsideOwnerApp

\* the window is closed, mainloop returns and the process ends
close_window ==
    /\ screen # "closed"
    /\ screen' = "closed"
    /\ authenticated' = FALSE
    /\ login_form' = NoForm
    /\ session' = NoSession
    /\ UNCHANGED ownerVars
    /\ UNCHANGED OutsideOwnerApp

\* _handle_login, from the Login button and from the <Return> binding of
\* the root window. The binding outlives the login screen: on a later screen
\* the key hands over what the form variables held last.
handle_login(username, provided, fail, azure_fails) ==
    /\ screen \in {"login", "password_change", "main"}
    /\ screen # "login" =>
          /\ username = login_form.username
          /\ provided = login_form.password
    /\ IF username = "" \/ provided = NoPassword
       THEN /\ login_form' = [username |-> username, password |-> provided]
            /\ session' = [session EXCEPT !.box = "error"]
            /\ UNCHANGED <<screen, authenticated>>
            /\ UNCHANGED ownerVars
       ELSE /\ Authenticate(username, provided, fail)
            /\ IF answer'.value
               THEN /\ authenticated' = TRUE
                    /\ session' =
                          [logged_in |-> TRUE,
                           must_change |->
                              credentials'.require_password_change,
                           box |-> IF /\ ~RequiresPasswordChange(credentials')
                                      /\ azure_fails
                                   THEN "error" ELSE "none"]
                    /\ IF RequiresPasswordChange(credentials')
                       THEN /\ screen' = "password_change"
                            /\ login_form' = [username |-> username,
                                              password |-> provided]
                       ELSE /\ screen' = ScreenAfterLoad(azure_fails)
                            /\ login_form' =
                                  FormAfterLoad([username |-> username,
                                                 password |-> provided],
                                                azure_fails)
               ELSE /\ login_form' = [username |-> username,
                                      password |-> provided]
                    /\ session' = [session EXCEPT !.box = "error"]
                    /\ UNCHANGED <<screen, authenticated>>
    /\ UNCHANGED OutsideOwnerApp

\* the checks _handle_password_change makes before it calls change_password
ChangeFormRejected(current_password, new_password, confirm_password) ==
    \/ current_password = NoPassword
    \/ new_password = NoPassword
    \/ confirm_password = NoPassword
    \/ new_password # confirm_password
    \/ Len(new_password) < MinPasswordLen

\* _handle_password_change, from the Change Password button
handle_password_change(current_password, new_password, confirm_password, salt, fail, azure_fails) ==
    /\ screen = "password_change"
    /\ IF ChangeFormRejected(current_password, new_password,
                             confirm_password)
       THEN /\ session' = [session EXCEPT !.box = "error"]
            /\ UNCHANGED <<screen, authenticated, login_form>>
            /\ UNCHANGED ownerVars
       ELSE /\ ChangePassword(current_password, new_password, salt, fail)
            /\ IF answer'.value
               THEN /\ screen' = ScreenAfterLoad(azure_fails)
                    /\ login_form' = FormAfterLoad(login_form, azure_fails)
                    /\ session' =
                          [session EXCEPT
                             !.must_change = FALSE,
                             !.box = IF azure_fails THEN "error"
                                     ELSE "info"]
               ELSE /\ session' = [session EXCEPT !.box = "error"]
                    /\ UNCHANGED <<screen, login_form>>
            /\ UNCHANGED authenticated
    /\ UNCHANGED OutsideOwnerApp

(* ------------------------------ clock --------------------------------- *)
Tick ==
    /\ now < MaxTime
    /\ now' = now + 1
    /\ UNCHANGED <<store, archives, last>>
    /\ UNCHANGED <<localVars, ownerVars, viewVars>>

\* a month passes
Elapse ==
    /\ now + ExpiringSoonDays <= MaxElapsed
    /\ now' = now + ExpiringSoonDays
    /\ UNCHANGED <<store, archives, last>>
    /\ UNCHANGED <<localVars, ownerVars, viewVars>>

(* --------------------------- specification ---------------------------- *)
NoCall == Call("none", None, "ok", None)

\* the state before any call, but for the stored value given to
\* verify_password
InitButInputs ==
    /\ store = <<>>
    /\ archives = {}
    /\ now = 0
    /\ last = NoCall
    /\ doctors = {}
    /\ pharmacies = {}
    /\ laboratories = {}
    /\ seq = [doctors |-> 0, pharmacies |-> 0, laboratories |-> 0]
    /\ dialog = NoDialog
    /\ credentials = <<>>
    /\ credentials_file = <<>>
    /\ password = NoPassword
    /\ answer = NoAnswer
    /\ granted = <<>>
    /\ tree = <<>>
    /\ export_file = NoExport
    /\ loading = 0
    /\ fetched = <<>>
    /\ inflight = [instance \in Instances |-> NoRequest]
    /\ screen = "closed"
    /\ authenticated = FALSE
    /\ login_form = NoForm
    /\ session = NoSession
    /\ journal = NoJournal
    /\ code_call = NoCodeCall

InitButStored ==
    /\ InitButInputs
    /\ collection = <<>>

Init ==
    /\ InitButStored
    /\ stored_password = NoHash

\* the pure functions of SecurityManager start from any malformed stored value
InitSecurity ==
    /\ InitButStored
    /\ stored_password \in MalformedHashes

\* the account directory as the admin app and the owner app drive it
Next ==
    \/ \E create_lab \in BOOLEAN, fail \in 0..MaxCalls :
          create_doctor_account(create_lab, fail)
    \/ \E id \in Ids, active \in BOOLEAN, fail \in 0..MaxCalls :
          activate_doctor_account(id, active, fail)
    \/ \E id \in Ids, active \in BOOLEAN, fail \in 0..MaxCalls :
          activate_pharmacy_account(id, active, fail)
    \/ \E id \in Ids, active \in BOOLEAN, fail \in 0..MaxCalls :
          activate_lab_account(id, active, fail)
    \/ \E id \in Ids, fail \in 0..MaxCalls :
          add_lab_account_to_doctor(id, fail)
    \/ \E id \in Ids, fail \in 0..MaxCalls :
          deactivate_all_accounts_for_doctor(id, fail)
    \/ Tick

Spec == Init /\ [][Next]_vars

\* the operations that assign access codes
NextCodes ==
    \/ \E create_lab \in BOOLEAN, fail \in 0..MaxCalls :
          create_doctor_account(create_lab, fail)
    \/ \E id \in Ids, fail \in 0..MaxCalls :
          add_lab_account_to_doctor(id, fail)
    \/ \E id \in Ids, fail \in 0..MaxCalls :
          regenerate_access_code(id, fail)
    \/ \E email \in 1..NumEmails, fail \in 0..MaxCalls :
          create_admin_account(email, fail)
    \/ Tick

SpecCodes == Init /\ [][NextCodes]_vars

\* the multi-step sequences of the directory, with backup and restore
NextSequences ==
    \/ \E create_lab \in BOOLEAN, fail \in 0..MaxCalls :
          create_doctor_account(create_lab, fail)
    \/ \E id \in Ids, fail \in 0..MaxCalls :
          deactivate_all_accounts_for_doctor(id, fail)
    \/ \E fail \in 0..MaxCalls : backup_database(fail)
    \/ \E a \in archives, fail \in 0..(2 * MaxIds + 1) :
          restore_database(a, fail)
    \/ Tick

SpecSequences == Init /\ [][NextSequences]_vars

\* the operations on a doctor and its associates, none of which fails
NextComplete ==
    \/ \E create_lab \in BOOLEAN : create_doctor_account(create_lab, 0)
    \/ \E id \in Ids, active \in BOOLEAN :
          activate_doctor_account(id, active, 0)
    \/ \E id \in Ids, active \in BOOLEAN :
          activate_pharmacy_account(id, active, 0)
    \/ \E id \in Ids, active \in BOOLEAN :
          activate_lab_account(id, active, 0)
    \/ \E id \in Ids : add_lab_account_to_doctor(id, 0)
    \/ \E id \in Ids : deactivate_all_accounts_for_doctor(id, 0)
    \/ Tick

SpecComplete == Init /\ [][NextComplete]_vars

\* an admin app at its doctors list, next to the owner app and another
\* admin app that write to the same container
NextToggles ==
    \/ \E create_lab \in BOOLEAN : create_doctor_account(create_lab, 0)
    \/ \E id \in Ids, fail \in 0..MaxCalls : toggle_doctor_status(id, fail)
    \/ \E id \in Ids, fail \in 0..MaxCalls : toggle_pharmacy_status(id, fail)
    \/ \E id \in Ids, fail \in 0..MaxCalls : toggle_lab_status(id, fail)
    \/ load_doctors
    \/ load_doctors_thread
    \/ populate_fetched
    \/ \E id \in Ids, active \in BOOLEAN :
          activate_doctor_account(id, active, 0)
    \/ \E id \in Ids : deactivate_all_accounts_for_doctor(id, 0)

SpecToggles == Init /\ [][NextToggles]_vars

\* exports of the collections a query can return
InitExport ==
    /\ InitButInputs
    /\ stored_password = NoHash
    /\ collection \in Collections

NextExport ==
    \E output_format \in {"json", "csv", "xml"}, fail \in 0..1 :
       export_data(output_format, fail)

SpecExport == InitExport /\ [][NextExport]_vars

\* backup and restore of a directory whose records are created, changed
\* and deleted in between
NextRestore ==
    \/ \E create_lab \in BOOLEAN, fail \in 0..MaxCalls :
          create_doctor_account(create_lab, fail)
    \/ \E email \in 1..NumEmails, fail \in 0..MaxCalls :
          create_admin_account(email, fail)
    \/ \E id \in Ids, fail \in 0..MaxCalls :
          delete_admin_account(id, fail)
    \/ \E id \in Ids, fail \in 0..MaxCalls :
          deactivate_all_accounts_for_doctor(id, fail)
    \/ \E fail \in 0..MaxCalls : backup_database(fail)
    \/ \E a \in archives, fail \in 0..(2 * MaxIds + 1) :
          restore_database(a, fail)
    \/ Tick

SpecRestore == Init /\ [][NextRestore]_vars

\* changes a caller can hand to update_doctor_account: a field the edit form
\* sends, the role, and a key no record has
DoctorUpdates ==
    {[isActive |-> FALSE], [role |-> "admin"], [nickname |-> 1]}

\* changes a caller can hand to update_admin_account
AdminUpdates ==
    {[isActive |-> FALSE], [nickname |-> 1]}
    \cup {[email |-> e] : e \in 1..NumEmails}

\* creation and field updates
NextUpdates ==
    \/ \E create_lab \in BOOLEAN, fail \in 0..MaxCalls :
          create_doctor_account(create_lab, fail)
    \/ \E email \in 1..NumEmails, fail \in 0..MaxCalls :
          create_admin_account(email, fail)
    \/ \E id \in Ids, update_data \in DoctorUpdates, fail \in 0..MaxCalls :
          update_doctor_account(id, update_data, fail)
    \/ \E id \in Ids, update_data \in AdminUpdates, fail \in 0..MaxCalls :
          update_admin_account(id, update_data, fail)
    \/ Tick

SpecUpdates == Init /\ [][NextUpdates]_vars

\* numbers of days the extend dialog is given
ExtendDays == {10, 30}

\* subscriptions: creation, extension, a cleared end date, and the doctors
\* list as months pass
NextSubscription ==
    \/ \E create_lab \in BOOLEAN, fail \in 0..MaxCalls :
          create_doctor_account(create_lab, fail)
    \/ \E id \in Ids, fail \in 0..MaxCalls :
          update_doctor_account(id, [subscriptionEndDate |-> None], fail)
    \/ \E id \in Ids, days \in ExtendDays, fail \in 0..MaxCalls :
          update_subscription(id, days, fail)
    \/ \E later_in_day \in BOOLEAN : populate_doctor_trees(later_in_day)
    \/ Elapse

SpecSubscription == Init /\ [][NextSubscription]_vars

\* two app instances whose service calls on a doctor interleave
NextInterleaved ==
    \/ \E create_lab \in BOOLEAN : create_doctor_account(create_lab, 0)
    \/ \E instance \in Instances, id \in Ids, days \in ExtendDays :
          update_subscription_read(instance, id, days)
    \/ \E instance \in Instances, id \in Ids, active \in BOOLEAN :
          activate_doctor_account_read(instance, id, active)
    \/ \E instance \in Instances : replace_item(instance)
    \/ Tick

SpecInterleaved == Init /\ [][NextInterleaved]_vars

\* hashing and verifying
NextSecurity ==
    \/ \E plain \in Passwords : hash_password(plain)
    \/ \E provided \in Passwords : verify_password_call(provided)

SpecSecurity == InitSecurity /\ [][NextSecurity]_vars

\* the owner credential over application starts, every read and write of
\* the credentials file succeeding
NextOwner ==
    \/ \E initial_password \in GeneratedPasswords, salt \in Salts :
          OwnerCredentials(initial_password, salt, FALSE, 0)
    \/ \E username \in Usernames, provided \in Passwords :
          authenticate(username, provided, 0)
    \/ \E old_password \in Passwords, new_password \in Passwords,
          salt \in Salts :
          change_password(old_password, new_password, salt, 0)
    \/ \E new_password \in GeneratedPasswords, salt \in Salts :
          reset_password(new_password, salt, 0)
    \/ Tick

SpecOwner == Init /\ [][NextOwner]_vars

\* calls of _save_credentials that may raise: open, json.dump
SaveCalls == 2

\* the owner credential over application starts when reads and writes of
\* the credentials file may fail
NextStarts ==
    \/ \E initial_password \in GeneratedPasswords, salt \in Salts,
          load_fails \in BOOLEAN, fail \in 0..SaveCalls :
          OwnerCredentials(initial_password, salt, load_fails, fail)
    \/ \E username \in Usernames, provided \in Passwords,
          fail \in 0..SaveCalls :
          authenticate(username, provided, fail)
    \/ \E old_password \in Passwords, new_password \in GeneratedPasswords,
          salt \in Salts, fail \in 0..SaveCalls :
          change_password(old_password, new_password, salt, fail)
    \/ \E new_password \in GeneratedPasswords, salt \in Salts,
          fail \in 0..SaveCalls :
          reset_password(new_password, salt, fail)
    \/ Tick

SpecStarts == Init /\ [][NextStarts]_vars

\* what a form field of the owner app may hold
TypedPasswords == Passwords \cup {NoPassword}
TypedUsernames == Usernames \cup {""}

\* the owner app's window from start to main screen; reset_password is
\* called from outside the window
NextSession ==
    \/ \E initial_password \in GeneratedPasswords, salt \in Salts,
          load_fails \in BOOLEAN, fail \in 0..SaveCalls :
          OwnerApp(initial_password, salt, load_fails, fail)
    \/ \E username \in TypedUsernames, provided \in TypedPasswords,
          fail \in 0..SaveCalls, azure_fails \in BOOLEAN :
          handle_login(username, provided, fail, azure_fails)
    \/ \E current_password \in TypedPasswords,
          new_password \in TypedPasswords,
          salt \in Salts, fail \in 0..SaveCalls, azure_fails \in BOOLEAN :
          \E confirm_password \in
                {new_password, current_password, NoPassword} :
          handle_password_change(current_password, new_password,
                                 confirm_password, salt, fail, azure_fails)
    \/ \E new_password \in GeneratedPasswords, salt \in Salts :
          reset_password(new_password, salt, 0)
    \/ close_window

SpecSession == Init /\ [][NextSession]_vars

\* the local administration tool on its SQLite database, every SELECT of
\* generate_access_code answering
NextLocal ==
    \/ \E create_related \in BOOLEAN : add_doctor(create_related, FALSE)
    \/ \E d \in 1..MaxRows : create_associated_accounts(d, FALSE)
    \/ add_pharmacy(FALSE)
    \/ add_lab(FALSE)
    \/ \E r \in 1..MaxRows : edit_pharmacy(r)
    \/ \E r \in 1..MaxRows : edit_lab(r)
    \/ regenerate_code(FALSE)
    \/ \E text \in Codes \cup {None} : type_access_code(text)
    \/ cancel_dialog
    \/ \E d \in (1..MaxRows) \cup {None} : validate_and_save(d)

SpecLocal == Init /\ [][NextLocal]_vars

\* doctors added and deleted on one connection, over restarts of the
\* application
NextDelete ==
    \/ \E create_related \in BOOLEAN : add_doctor(create_related, FALSE)
    \/ \E d \in 1..MaxRows : create_associated_accounts(d, FALSE)
    \/ \E d \in 1..MaxRows, fail \in 0..DeleteCalls : delete_doctor(d, fail)
    \/ connect_to_database

SpecDelete == Init /\ [][NextDelete]_vars

\* the steps inside a generate_access_code call
CallSteps ==
    \E select_fails \in BOOLEAN, next_code \in Codes :
       \/ select_pharmacies(select_fails, next_code)
       \/ select_laboratories(select_fails, next_code)

\* a draw of secrets.choice that gives a code no row holds
DrawFreeCode ==
    /\ \/ \E code \in Codes : call_generate_access_code(code)
       \/ CallSteps
    /\ code_call'.status = "drawn"
    /\ code_call'.code \notin Held

\* calls of generate_access_code between handlers that fill the tables; the
\* application has one thread, so no handler runs inside a call
NextGenerate ==
    \/ /\ code_call.status = "idle"
       /\ \E create_related \in BOOLEAN : add_doctor(create_related, FALSE)
    \/ /\ code_call.status = "idle"
       /\ \E d \in 1..MaxRows : create_associated_accounts(d, FALSE)
    \/ /\ code_call.status = "idle"
       /\ add_pharmacy(FALSE)
    \/ /\ code_call.status = "idle"
       /\ add_lab(FALSE)
    \/ /\ code_call.status = "idle"
       /\ \E d \in (1..MaxRows) \cup {None} : validate_and_save(d)
    \/ \E code \in Codes : call_generate_access_code(code)
    \/ \E select_fails \in BOOLEAN, next_code \in Codes :
          select_pharmacies(select_fails, next_code)
    \/ \E select_fails \in BOOLEAN, next_code \in Codes :
          select_laboratories(select_fails, next_code)
    \/ end_handler

\* a call that has begun goes on, and secrets.choice does not avoid the
\* unused codes for ever
SpecGenerate ==
    /\ Init
    /\ [][NextGenerate]_vars
    /\ WF_vars(CallSteps)
    /\ SF_vars(DrawFreeCode)

(* ======================= the account directory ======================== *)
\* the rows of both tables, each tagged with its table
AllRows ==
    {<<"pharmacies", r>> : r \in pharmacies} \cup
    {<<"laboratories", r>> : r \in laboratories}

\* C2: in the SQLite database no access_code occurs in more than one row of
\* pharmacies and laboratories taken together, whether the code was
\* generated, regenerated or typed by hand.
C2_CodesUniqueAcrossTables ==
    \A x \in AllRows : \A y \in AllRows :
        x # y => x[2].access_code # y[2].access_code

PharmaciesOf(s, d) ==
    {a \in DOMAIN s : s[a].role = "pharmacy" /\ s[a].doctorId = d}
LaboratoriesOf(s, d) ==
    {a \in DOMAIN s : s[a].role = "laboratory" /\ s[a].doctorId = d}

\* every record of s is in t, unchanged
Kept(s, t) == \A a \in DOMAIN s : a \in DOMAIN t /\ t[a] = s[a]

\* C1: in the cloud store no two pharmacy/laboratory records carry the same
\* accessCode, whatever create_doctor_account, add_lab_account_to_doctor and
\* regenerate_access_code have assigned.
C1_AccessCodesDistinct ==
    \A a \in AssociateIds(store) : \A b \in AssociateIds(store) :
        a # b => store[a].accessCode # store[b].accessCode

\* C3: a create_doctor_account call in which no call raises leaves one new
\* doctor record, active, subscribed for one year from its start date, with
\* exactly one pharmacy record linked both ways, and a laboratory record
\* linked both ways exactly when create_lab_account was asked for; without
\* it hasLabAccount is false, labAccountId is null and no laboratory record
\* names the doctor.
C3_CreateDoctorLeaves ==
    [][\A create_lab \in BOOLEAN :
         (/\ last'.op = "create_doctor_account"
          /\ create_doctor_account(create_lab, 0)) =>
           LET d == last'.id IN
           /\ last'.status = "ok"
           /\ DoctorIds(store') \ DoctorIds(store) = {d}
           /\ store'[d].isActive
           /\ store'[d].subscriptionEndDate
                 = store'[d].subscriptionStartDate + 365
           /\ PharmaciesOf(store', d) = {store'[d].pharmacyAccountId}
           /\ IF create_lab
              THEN /\ store'[d].hasLabAccount
                   /\ LaboratoriesOf(store', d) = {store'[d].labAccountId}
              ELSE /\ ~store'[d].hasLabAccount
                   /\ store'[d].labAccountId = None
                   /\ LaboratoriesOf(store', d) = {}
      ]_vars

C3_Witness ==
    /\ last.op = "create_doctor_account"
    /\ last.status = "ok"
    /\ last.id \in DoctorIds(store)
    /\ ~store[last.id].hasLabAccount
    /\ PharmaciesOf(store, last.id) # {}

\* the roles of the records create_doctor_account has created when its call
\* number k raises: the calls are the directory user, the doctor, the
\* pharmacy, the laboratory if asked for, the patients container
CreatedBefore(create_lab, k) ==
    (IF k > 2 THEN {"doctor"} ELSE {}) \cup
    (IF k > 3 THEN {"pharmacy"} ELSE {}) \cup
    (IF create_lab /\ k > 4 THEN {"laboratory"} ELSE {})

\* number of calls deactivate_all_accounts_for_doctor makes for an associate
AssociateCallCount(s, a) ==
    IF a = None THEN 0 ELSE IF a \in DOMAIN s THEN 2 ELSE 1

\* the ids below id in a set of ids
Below(ids, id) == {x \in ids : x < id}

\* C4: when call number k of create_doctor_account,
\* deactivate_all_accounts_for_doctor or restore_database raises, the
\* operation reports failure, every record written by the calls before k is
\* in the store as written, and everything else in the store is as it was:
\* nothing is deleted or rolled back.
C4_PartialWritesStay ==
    [][/\ \A create_lab \in BOOLEAN, k \in 1..MaxCalls :
            (/\ last'.op = "create_doctor_account"
             /\ create_doctor_account(create_lab, k)) =>
              LET new == DOMAIN store' \ DOMAIN store IN
              /\ last'.status = "error"
              /\ Kept(store, store')
              /\ {store'[a].role : a \in new} = CreatedBefore(create_lab, k)
              /\ Cardinality(new) = Cardinality(CreatedBefore(create_lab, k))
              /\ \A a \in new : store'[a].isActive /\ store'[a].createdAt = now
       /\ \A d \in Ids, k \in 1..MaxCalls :
            (/\ last'.op = "deactivate_all_accounts_for_doctor"
             /\ deactivate_all_accounts_for_doctor(d, k)) =>
              LET p == store[d].pharmacyAccountId
                  l == store[d].labAccountId
                  pn == AssociateCallCount(store, p)
                  ln == AssociateCallCount(store, l)
                  \* the replace of the pharmacy is call 4; that of the
                  \* laboratory follows the pharmacy's calls
                  pdone == pn = 2 /\ k > 4
                  ldone == ln = 2 /\ k > 2 + pn + 2
              IN
              /\ last'.status = "error"
              /\ DOMAIN store' = DOMAIN store
              /\ store'[d] = IF k > 2
                             THEN [store[d] EXCEPT !.isActive = FALSE,
                                                   !.updatedAt = now]
                             ELSE store[d]
              /\ p \in DOMAIN store /\ p # d =>
                   store'[p] = IF pdone
                               THEN [store[p] EXCEPT !.isActive = FALSE,
                                                     !.updatedAt = now]
                               ELSE store[p]
              /\ l \in DOMAIN store /\ l # d /\ l # p =>
                   store'[l] = IF ldone
                               THEN [store[l] EXCEPT !.isActive = FALSE,
                                                     !.updatedAt = now]
                               ELSE store[l]
              /\ \A a \in DOMAIN store \ {d, p, l} : store'[a] = store[a]
       /\ \A a \in archives, k \in 1..(2 * MaxIds + 1) :
            (/\ last'.op = "restore_database"
             /\ restore_database(a, k)) =>
              /\ last'.status = "error"
              /\ \A id \in DOMAIN store \ DOMAIN a :
                    id \in DOMAIN store' /\ store'[id] = store[id]
              /\ \A id \in DOMAIN a :
                    \* the item is written by call 2j + 1, j its rank
                    IF 2 * (Cardinality(Below(DOMAIN a, id)) + 1) + 1 < k
                    THEN id \in DOMAIN store' /\ store'[id] = a[id]
                    ELSE IF id \in DOMAIN store
                    THEN id \in DOMAIN store' /\ store'[id] = store[id]
                    ELSE id \notin DOMAIN store'
      ]_vars

C4_Witness ==
    /\ last.op = "create_doctor_account"
    /\ last.status = "error"
    /\ last.id \in DoctorIds(store)
    /\ PharmaciesOf(store, last.id) # {}
    /\ store[last.id].labAccountId # None
    /\ LaboratoriesOf(store, last.id) = {}

\* C5: add_lab_account_to_doctor on a doctor whose record has hasLabAccount
\* true and a labAccountId writes nothing, so repeating it leaves the linked
\* laboratory record and the doctor's labAccountId as they are.
C5_AddLabTwiceWritesNothing ==
    [][\A d \in Ids, fail \in 0..MaxCalls :
         (/\ last'.op = "add_lab_account_to_doctor"
          /\ d \in DoctorIds(store)
          /\ store[d].hasLabAccount
          /\ store[d].labAccountId # None
          /\ add_lab_account_to_doctor(d, fail)) =>
            /\ store' = store
            /\ LaboratoriesOf(store', d) = LaboratoriesOf(store, d)
            /\ store'[d].labAccountId = store[d].labAccountId
            \* after the call that created the laboratory: one linked record
            /\ (/\ last.op = "add_lab_account_to_doctor"
                /\ last.status = "ok"
                /\ last.id = d
                /\ last.lab_id # KeyError) =>
                  /\ store'[d].labAccountId = last.lab_id
                  /\ {a \in LaboratoriesOf(store', d) :
                         a = store'[d].labAccountId} = {last.lab_id}
      ]_vars

C5_Witness ==
    /\ last.op = "add_lab_account_to_doctor"
    /\ last.status = "ok"
    /\ last.lab_id = KeyError
    /\ store[last.id].hasLabAccount
    /\ Cardinality(LaboratoriesOf(store, last.id)) = 1

\* C6: two consecutive add_lab_account_to_doctor calls on one doctor both
\* succeed and report the same lab id in result['lab_id'].
C6_SameLabIdTwice ==
    [][\A d \in Ids :
         (/\ last.op = "add_lab_account_to_doctor"
          /\ last.status = "ok"
          /\ last.id = d
          /\ add_lab_account_to_doctor(d, 0)) =>
            /\ last'.status = "ok"
            /\ last'.lab_id = last.lab_id
      ]_vars

\* C7: at most one pharmacy record and at most one laboratory record of the
\* cloud store carry a given doctor's id in doctorId.
C7_AtMostOneAssociate ==
    \A d \in DoctorIds(store) :
        /\ Cardinality(PharmaciesOf(store, d)) <= 1
        /\ Cardinality(LaboratoriesOf(store, d)) <= 1

\* the pharmacy and laboratory ids a doctor record names
Associates(rec) == {rec.pharmacyAccountId, rec.labAccountId} \ {None}

\* C8: after deactivate_all_accounts_for_doctor returns, the doctor record
\* and every stored record its pharmacyAccountId/labAccountId names have
\* isActive false; and the doctor record is written first: a call that
\* changed an associated record, even one that failed later, has made the
\* doctor inactive.
C8_DeactivateAll ==
    [][\A d \in Ids, fail \in 0..MaxCalls :
         (/\ last'.op = "deactivate_all_accounts_for_doctor"
          /\ deactivate_all_accounts_for_doctor(d, fail)) =>
           /\ fail = 0 =>
                /\ last'.status = "ok"
                /\ ~store'[d].isActive
                /\ \A a \in Associates(store'[d]) :
                      a \in DOMAIN store' => ~store'[a].isActive
           /\ (\E a \in Associates(store[d]) \ {d} :
                  a \in DOMAIN store /\ store'[a] # store[a]) =>
                /\ ~store'[d].isActive
                /\ store'[d].updatedAt = now
      ]_vars

C8_Witness ==
    /\ last.op = "deactivate_all_accounts_for_doctor"
    /\ last.status = "ok"
    /\ ~store[last.id].isActive
    /\ \E a \in Associates(store[last.id]) :
          a \in DOMAIN store /\ ~store[a].isActive /\ store[a].updatedAt = now
    /\ Associates(store[last.id]) \subseteq DOMAIN store
    /\ Cardinality(Associates(store[last.id])) = 2

\* C9: activate_doctor_account changes nothing but isActive and updatedAt of
\* the doctor record: the pharmacy and laboratory records and the doctor's
\* pharmacyAccountActive and labAccountActive stay as they were.
C9_ActivateDoctorFrame ==
    [][\A d \in Ids, active \in BOOLEAN, fail \in 0..MaxCalls :
         (/\ last'.op = "activate_doctor_account"
          /\ activate_doctor_account(d, active, fail)) =>
           /\ DOMAIN store' = DOMAIN store
           /\ \A a \in DOMAIN store \ {d} : store'[a] = store[a]
           /\ DOMAIN store'[d] = DOMAIN store[d]
           /\ \A k \in DOMAIN store[d] \ {"isActive", "updatedAt"} :
                 store'[d][k] = store[d][k]
           /\ fail = 0 => store'[d].isActive = active
      ]_vars

C9_Witness ==
    /\ last.op = "activate_doctor_account"
    /\ last.status = "ok"
    /\ ~store[last.id].isActive
    /\ store[last.id].pharmacyAccountActive
    /\ \E a \in Associates(store[last.id]) :
          a \in DOMAIN store /\ store[a].isActive

\* C10: activate_pharmacy_account, activate_lab_account and
\* deactivate_all_accounts_for_doctor, run on a doctor whose
\* pharmacyAccountId/labAccountId names no stored record, return success,
\* write the doctor record and create no record for the missing associate.
C10_MissingAssociateIgnored ==
    [][\A d \in Ids :
         /\ \A active \in BOOLEAN :
              (/\ last'.op = "activate_pharmacy_account"
               /\ activate_pharmacy_account(d, active, 0)
               /\ store[d].pharmacyAccountId # None
               /\ store[d].pharmacyAccountId \notin DOMAIN store) =>
                 /\ last'.status = "ok"
                 /\ store'[d] = [store[d] EXCEPT
                                   !.pharmacyAccountActive = active,
                                   !.updatedAt = now]
                 /\ DOMAIN store' = DOMAIN store
         /\ \A active \in BOOLEAN :
              (/\ last'.op = "activate_lab_account"
               /\ activate_lab_account(d, active, 0)
               /\ store[d].labAccountId # None
               /\ store[d].labAccountId \notin DOMAIN store) =>
                 /\ last'.status = "ok"
                 /\ store'[d] = [store[d] EXCEPT
                                   !.labAccountActive = active,
                                   !.updatedAt = now]
                 /\ DOMAIN store' = DOMAIN store
         /\ (/\ last'.op = "deactivate_all_accounts_for_doctor"
             /\ deactivate_all_accounts_for_doctor(d, 0)
             /\ \E a \in Associates(store[d]) : a \notin DOMAIN store) =>
               /\ last'.status = "ok"
               /\ store'[d] = [store[d] EXCEPT !.isActive = FALSE,
                                               !.updatedAt = now]
               /\ DOMAIN store' = DOMAIN store
      ]_vars

C10_Witness ==
    /\ last.op = "activate_lab_account"
    /\ last.status = "ok"
    /\ store[last.id].labAccountId # None
    /\ store[last.id].labAccountId \notin DOMAIN store
    /\ ~store[last.id].labAccountActive
    /\ store[last.id].updatedAt = now

(* ========================= updates of records ========================= *)
\* the fields the edit forms of the two apps send as changes, among the
\* fields the model keeps
MutableFields == {"isActive", "email"}

\* C11: update_doctor_account and update_admin_account merge only the
\* whitelisted mutable fields: a successful call leaves every other field of
\* the record as it was, whatever keys the changes name, touches no other
\* record, and sets updatedAt to the time of the call.
C11_UpdateMergesWhitelistOnly ==
    [][\A id \in Ids, update_data \in DoctorUpdates \cup AdminUpdates :
         (/\ last'.op \in {"update_doctor_account", "update_admin_account"}
          /\ last'.status = "ok"
          /\ \/ update_doctor_account(id, update_data, 0)
             \/ update_admin_account(id, update_data, 0)) =>
           /\ DOMAIN store' = DOMAIN store
           /\ \A a \in DOMAIN store \ {id} : store'[a] = store[a]
           /\ DOMAIN store'[id] = DOMAIN store[id]
           /\ \A k \in DOMAIN store[id] \ {"updatedAt"} :
                 store'[id][k] =
                    IF k \in MutableFields \cap DOMAIN update_data
                    THEN update_data[k] ELSE store[id][k]
           /\ store'[id].updatedAt = now
      ]_vars

\* C12: no operation changes the id or the role a stored record was created
\* with, and no record leaves the store.
C12_IdAndRoleFixed ==
    [][\A a \in DOMAIN store :
         /\ a \in DOMAIN store'
         /\ store'[a].id = a
         /\ store'[a].role = store[a].role
      ]_vars

\* C13: regenerate_access_code on a stored record that is neither a pharmacy
\* nor a laboratory fails and leaves the store as it was; on a pharmacy or
\* laboratory record it changes, in that record only, accessCode and
\* updatedAt.
C13_RegenerateChecksRole ==
    [][\A id \in Ids, fail \in 0..MaxCalls :
         (/\ last'.op = "regenerate_access_code"
          /\ id \in DOMAIN store
          /\ regenerate_access_code(id, fail)) =>
           IF store[id].role \notin {"pharmacy", "laboratory"}
           THEN /\ last'.status = "error"
                /\ store' = store
           ELSE /\ DOMAIN store' = DOMAIN store
                /\ \A a \in DOMAIN store \ {id} : store'[a] = store[a]
                /\ DOMAIN store'[id] = DOMAIN store[id]
                /\ \A k \in DOMAIN store[id] \ {"accessCode", "updatedAt"} :
                      store'[id][k] = store[id][k]
                /\ fail = 0 => /\ last'.status = "ok"
                               /\ store'[id].updatedAt = now
                               /\ store'[id].accessCode \in Codes
      ]_vars

\* a refused call on a doctor or admin record whose updatedAt is older than
\* the clock, so that a refresh would show
C13_Witness ==
    /\ last.op = "regenerate_access_code"
    /\ last.status = "error"
    /\ last.id \in DOMAIN store
    /\ store[last.id].role \in {"doctor", "admin"}
    /\ store[last.id].updatedAt < now

\* C16: every stored record has updatedAt >= createdAt, and every step that
\* creates or modifies a record leaves that record with updatedAt equal to
\* the time of the step.
C16_UpdatedAtRefreshed ==
    /\ [](\A a \in DOMAIN store : store[a].updatedAt >= store[a].createdAt)
    /\ [][\A a \in DOMAIN store' :
            (a \notin DOMAIN store \/ store'[a] # store[a]) =>
               store'[a].updatedAt = now
         ]_vars

(* ============================ subscriptions =========================== *)
RECURSIVE SumDays(_)
SumDays(days) == IF days = <<>> THEN 0 ELSE Head(days) + SumDays(Tail(days))

\* C14: a successful update_subscription(doctor, days) writes the end date
\* base + days, base being the stored end date if there is one and the time
\* of the call otherwise, leaves subscriptionStartDate and every other record
\* alone; and while nothing else writes the end date, the end date is the
\* first base plus the sum of the extensions made, in whatever order.
C14_ExtensionsAdd ==
    /\ [][\A d \in Ids, days \in ExtendDays :
            (/\ last'.op = "update_subscription"
             /\ update_subscription(d, days, 0)) =>
              /\ store'[d].subscriptionEndDate =
                    (IF store[d].subscriptionEndDate # None
                     THEN store[d].subscriptionEndDate ELSE now) + days
              /\ store'[d].subscriptionStartDate =
                    store[d].subscriptionStartDate
              /\ DOMAIN store' = DOMAIN store
              /\ \A a \in DOMAIN store \ {d} : store'[a] = store[a]
         ]_vars
    /\ [](\A d \in DOMAIN granted :
            (d \in DoctorIds(store)
             /\ store[d].subscriptionEndDate = granted[d].end) =>
               store[d].subscriptionEndDate =
                  granted[d].base + SumDays(granted[d].days))

\* 30 days then 10 days on top of the end date the account was created with
C14_Witness ==
    \E d \in DOMAIN granted :
        /\ d \in DoctorIds(store)
        /\ granted[d].days = <<30, 10>>
        /\ granted[d].base = store[d].subscriptionStartDate + YearDays
        /\ store[d].subscriptionEndDate = granted[d].base + 40

C17_VerifyAcceptsOnlyHashed ==
    [][\A provided \in Passwords :
         (/\ password # NoPassword
          /\ verify_password_call(provided)) =>
            /\ ~answer'.raised
            /\ answer'.value <=> (provided = password)
      ]_vars

\* q is p followed by NUL characters only
TrailingNulsOnly(p, q) ==
    /\ Len(p) <= Len(q)
    /\ SubSeq(q, 1, Len(p)) = p
    /\ \A i \in (Len(p) + 1)..Len(q) : q[i] = 0

\* C17, amended: a stored value made by hash_password(P), with whatever
\* salt, verifies exactly the passwords that are equal to P once trailing
\* NUL characters are left out; P itself is one of them.
C17_VerifyAcceptsUpToNuls ==
    [][\A provided \in Passwords :
         (/\ password # NoPassword
          /\ verify_password_call(provided)) =>
            /\ ~answer'.raised
            /\ answer'.value <=> (\/ TrailingNulsOnly(provided, password)
                                  \/ TrailingNulsOnly(password, provided))
      ]_vars

\* the hashed password followed by a NUL has been tried, and accepted
C17_Witness ==
    /\ answer.op = "verify_password"
    /\ password # NoPassword
    /\ answer.arg = password \o <<0>>
    /\ answer.value

\* C18: verify_password raises nothing, and on a stored value that is
\* empty, not base64 or too short for a salt and a key it returns false.
C18_VerifyNeverRaises ==
    [][\A provided \in Passwords :
         verify_password_call(provided) =>
            /\ ~answer'.raised
            /\ (\/ ~stored_password.valid
                \/ Len(stored_password.bytes) < 2) => ~answer'.value
      ]_vars

\* a stored value that is not base64 has been verified
C18_Witness ==
    /\ answer.op = "verify_password"
    /\ ~stored_password.valid
    /\ ~answer.value

\* the two passwords are equal up to NULs at the end of either
SameUpToNuls(p, q) ==
    \/ TrailingNulsOnly(p, q)
    \/ TrailingNulsOnly(q, p)

\* a change_password call whose old password does not verify answers
\* false and leaves the three password fields as they were
FailedChangeKeepsFields ==
    answer'.op = "change_password" =>
    \A old_password \in Passwords, new_password \in Passwords,
       salt \in Salts :
       (/\ ~verify_password(credentials.password_hash, old_password).value
        /\ answer'.arg = new_password
        /\ change_password(old_password, new_password, salt, 0))
       => /\ ~answer'.value
          /\ credentials'.password_hash = credentials.password_hash
          /\ credentials'.last_password_change =
                credentials.last_password_change
          /\ credentials'.require_password_change =
                credentials.require_password_change

C20_AuthenticateChecksBoth ==
    [][\A username \in Usernames, provided \in Passwords :
         authenticate(username, provided, 0) =>
            /\ answer'.value <=>
                  (/\ username = credentials.username
                   /\ verify_password(credentials.password_hash,
                                      provided).value)
            /\ ~answer'.value =>
                  (/\ credentials' = credentials
                   /\ credentials_file' = credentials_file)
            /\ answer'.value =>
                  (/\ DOMAIN credentials' = DOMAIN credentials
                   /\ \A field \in DOMAIN credentials \ {"last_login"} :
                         credentials'[field] = credentials[field]
                   /\ credentials'.last_login = now)
      ]_vars

\* the owner has logged in after the clock moved, and the login is dated
C20_Witness ==
    /\ answer.op = "authenticate"
    /\ answer.value
    /\ answer.arg = password
    /\ DOMAIN credentials # {}
    /\ credentials.last_login = now
    /\ credentials.last_login > credentials.created_at

\* C21: constructing OwnerCredentials while the credentials file holds a
\* credential never replaces the username or the password_hash in the file.
C21_ExistingCredentialKept ==
    [][\A initial_password \in GeneratedPasswords, salt \in Salts,
         load_fails \in BOOLEAN, fail \in 0..SaveCalls :
         (/\ answer'.op = "OwnerCredentials"
          /\ HoldsCredential(credentials_file)
          /\ OwnerCredentials(initial_password, salt, load_fails, fail)) =>
            /\ HoldsCredential(credentials_file')
            /\ credentials_file'.username = credentials_file.username
            /\ credentials_file'.password_hash =
                  credentials_file.password_hash
      ]_vars

\* C22: change_password and reset_password report success only when the
\* new credential is in the credentials file.
C22_SuccessMeansPersisted ==
    (/\ answer.op \in {"change_password", "reset_password"}
     /\ answer.value) =>
       /\ HoldsCredential(credentials_file)
       /\ credentials_file.password_hash = credentials.password_hash

\* C23: a restore_database that succeeds leaves every archived record in
\* the store under its id with its archived contents, whether the id was
\* there or not, and leaves every record whose id is not in the archive as
\* it was; right after the backup_database that made the archive, which
\* then equals the store, it changes nothing.
C23_RestoreUpserts ==
    [][\A a \in archives :
         (/\ last'.op = "restore_database"
          /\ restore_database(a, 0)) =>
            /\ last'.status = "ok"
            /\ DOMAIN store' = DOMAIN store \cup DOMAIN a
            /\ \A id \in DOMAIN a : store'[id] = a[id]
            /\ \A id \in DOMAIN store \ DOMAIN a : store'[id] = store[id]
            /\ (last.op = "backup_database" /\ last.status = "ok"
                                             /\ a = store) =>
                  store' = store
      ]_vars

\* a restore has succeeded on a store that holds a record the archive
\* lacks, next to archived records that had been changed since
C23_Witness ==
    /\ last.op = "restore_database"
    /\ last.status = "ok"
    /\ \E a \in archives :
         /\ DOMAIN store \ DOMAIN a # {}
         /\ \E id \in DOMAIN a : store[id].updatedAt < now
         /\ \A id \in DOMAIN a : store[id] = a[id]

\* the position of a name in the order of sorted()
AlphabeticalIndex(name) ==
    CHOOSE i \in 1..Len(Alphabetical) : Alphabetical[i] = name

\* the records of the example: {id: 1, a: x} and {id: 2, b: y}
ExampleItems ==
    <<("id" :> "1") @@ ("a" :> "x"), ("id" :> "2") @@ ("b" :> "y")>>

ExampleCsv ==
    [format |-> "csv",
     header |-> <<"id", "a", "b">>,
     rows |-> << <<"1", "x", "">>, <<"2", "", "y">> >>]

\* C24: the csv export of a non-empty collection has the header id followed
\* by every other field name of any record in lexicographic order, and one
\* row per record whose cell for a field the record lacks is empty; the
\* records {id: 1, a: x}, {id: 2, b: y} give id,a,b and 1,x, and 2,,y.
C24_CsvHeaderAndRows ==
    [][(/\ collection # <<>>
        /\ export_data("csv", 0)) =>
            LET header == export_file'.header
                rows == export_file'.rows
                items == collection
            IN
            /\ header[1] = "id"
            /\ {header[c] : c \in 2..Len(header)} = Columns(items) \ {"id"}
            /\ \A c \in 2..Len(header), e \in 2..Len(header) :
                  c < e => AlphabeticalIndex(header[c])
                             < AlphabeticalIndex(header[e])
            /\ Len(rows) = Len(items)
            /\ \A r \in 1..Len(items) :
                  /\ Len(rows[r]) = Len(header)
                  /\ \A c \in 1..Len(header) :
                        rows[r][c] = IF header[c] \in DOMAIN items[r]
                                     THEN items[r][header[c]]
                                     ELSE ""
            /\ items = ExampleItems => export_file' = ExampleCsv
      ]_vars

\* the records of the example have been exported
C24_Witness ==
    /\ last.op = "export_data"
    /\ last.status = "ok"
    /\ collection = ExampleItems
    /\ export_file = ExampleCsv

\* C25: a toggle of the admin app that went through inverts the stored
\* isActive flag of the account it is aimed at: the doctor, the doctor's
\* pharmacy or the doctor's laboratory.
C25_ToggleInverts ==
    [][\A id \in Ids :
         /\ (/\ last'.op = "activate_doctor_account"
             /\ toggle_doctor_status(id, 0)) =>
               store'[id].isActive = ~store[id].isActive
         /\ (/\ last'.op = "activate_pharmacy_account"
             /\ toggle_pharmacy_status(id, 0)) =>
               LET pharmacy_id == store[id].pharmacyAccountId IN
               pharmacy_id \in DOMAIN store =>
                  store'[pharmacy_id].isActive = ~store[pharmacy_id].isActive
         /\ (/\ last'.op = "activate_lab_account"
             /\ toggle_lab_status(id, 0)) =>
               LET lab_id == store[id].labAccountId IN
               lab_id \in DOMAIN store =>
                  store'[lab_id].isActive = ~store[lab_id].isActive
      ]_vars

\* C26: when every operation ran to its end, each doctor's
\* pharmacyAccountActive equals the isActive of its pharmacy record and its
\* labAccountActive the isActive of its laboratory record, where the
\* record exists.
C26_DoctorFlagsMatchAssociates ==
    \A d \in DoctorIds(store) :
       /\ store[d].pharmacyAccountId \in DOMAIN store =>
             store[d].pharmacyAccountActive =
                store[store[d].pharmacyAccountId].isActive
       /\ store[d].labAccountId \in DOMAIN store =>
             store[d].labAccountActive =
                store[store[d].labAccountId].isActive

\* C27: when service calls of two app instances interleave on a doctor,
\* the record a call replaces keeps what the other call wrote: an
\* update_subscription adds its days to the end date the container holds
\* and leaves isActive, an activate_doctor_account leaves the end date.
C27_NoLostUpdate ==
    [][\A instance \in Instances :
         (/\ inflight[instance] # NoRequest
          /\ replace_item(instance)) =>
            LET request == inflight[instance]
                before == store[request.id]
                after == store'[request.id]
            IN
            /\ request.op = "update_subscription" =>
                  /\ after.isActive = before.isActive
                  /\ after.subscriptionEndDate =
                        NewEndDate(before.subscriptionEndDate, now,
                                   request.days)
            /\ request.op = "activate_doctor_account" =>
                  /\ after.isActive = request.active
                  /\ after.subscriptionEndDate = before.subscriptionEndDate
      ]_vars


\* C28: the owner app shows the main screen only in a session in which
\* authenticate has returned true and, if require_password_change was true
\* at that login, change_password has returned true since; and a step of
\* _handle_login or _handle_password_change that ends in an error box does
\* not bring the window to the main screen.
C28_MainOnlyAfterLoginAndChange ==
    [][/\ screen' = "main" =>
             /\ session'.logged_in
             /\ ~session'.must_change
       /\ session'.box = "error" /\ screen # "main" => screen' # "main"]_vars

\* the main screen is reached by a password change that was required
C28_Witness ==
    /\ screen = "main"
    /\ session.logged_in
    /\ answer.op = "change_password"
    /\ answer.value


\* rows of a table whose doctor_id is that of the doctor
RowsOf(table, doctor_id) == {r \in table : r.doctor_id = doctor_id}

\* C29: delete_doctor is all-or-nothing. When it succeeds, the doctor and
\* every pharmacies and laboratories row of that doctor are gone and the
\* deletion is committed; and a row leaves the committed tables only in a
\* delete_doctor step that succeeds for the row's doctor, never in the commit
\* of a later operation.
C29_DeleteDoctorAllOrNothing ==
    [][/\ \A d \in 1..MaxRows :
             delete_doctor(d, 0) =>
                /\ d \notin doctors'
                /\ RowsOf(pharmacies', d) = {}
                /\ RowsOf(laboratories', d) = {}
                /\ ~journal'.open
       /\ \A d \in Committed.doctors \ Committed'.doctors :
             delete_doctor(d, 0)
       /\ \A r \in (Committed.pharmacies \ Committed'.pharmacies) \cup
                   (Committed.laboratories \ Committed'.laboratories) :
             delete_doctor(r.doctor_id, 0)]_vars


\* C30: generate_access_code returns only a code that no row of pharmacies
\* or laboratories holds when it returns, and a call under way returns
\* eventually whenever some code is unused.
C30_ReturnsUnusedCode ==
    /\ [](code_call.status = "returned" => code_call.code \notin Held)
    /\ (code_call.status \in {"drawn", "checked"} /\ Codes \ Held # {})
          ~> (code_call.status = "returned")

====
